---- MODULE Spec2Model ----
(***************************************************************************)
(* A model of the RAG orchestration core of AskMyNotes                      *)
(* (backend/app/services/rag_service.py).                                   *)
(*                                                                          *)
(* Strings are sequences of one-character strings, so that strip, split,    *)
(* substring and suffix tests are computed, not assumed.  Similarities are  *)
(* integers in hundredths (0.55 is 55) and compute_confidence is evaluated  *)
(* in exact rational arithmetic over a common denominator; the IEEE double  *)
(* arithmetic of the source agrees with it except when the exact weighted   *)
(* score lies on a threshold (0.60, 0.75, 0.90) itself.                     *)
(***************************************************************************)
EXTENDS Integers, Sequences, FiniteSets, TLC

(***************************************************************************)
(* Bounds of the model.                                                     *)
(***************************************************************************)
MaxBlankLen == 3      \* longest whitespace-only query tried
MaxHits == 2          \* most results one vector search returns in the model
MaxSims == 3          \* longest similarity list given to compute_confidence
MaxTexts == 2         \* longest chunk-text list given to compute_confidence
MaxMarkers == 2       \* most markers in a text given to extract_citations
MaxCiteChunks == 2    \* longest chunk list given to extract_citations
MaxDedupLen == 3      \* longest chunk list given to _deduplicate_chunks
MaxRerankLen == 4     \* longest chunk list given to _rerank_chunks
MaxReplyLen == 5      \* longest reply of the auxiliary model to the reranker
MaxLines == 4         \* most lines in a reply to the expansion prompt
MaxRequests == 2      \* requests in flight on one event loop
MaxOrderHits == 2     \* most hits of one query in the aggregation runs
MaxHistory == 6       \* longest conversation history given to ask_question
MaxQueryLen == 4      \* longest query given to _preprocess_query
MaxRetryQueries == 3  \* most expanded queries embedded in the retry runs
MaxPieces == 4        \* most raw pieces the splitter returns in the model
MaxStoredTurns == 5   \* most turns stored for the session of a request

(***************************************************************************)
(* Character classes and string helpers (Python str methods, re module).    *)
(***************************************************************************)
WS == {" ", "\t", "\n"}

LeadPunct == {"?", "!"}

KeywordPunct == {".", ",", "?", "!", ":", ";", "(", ")", "[", "]", "{", "}"}

LowerChar(c) ==
    CASE c = "A" -> "a"
      [] c = "B" -> "b"
      [] c = "N" -> "n"
      [] c = "F" -> "f"
      [] c = "X" -> "x"
      [] OTHER -> c

Lower(s) == [i \in 1..Len(s) |-> LowerChar(s[i])]

RECURSIVE LStripSet(_, _)
LStripSet(s, cs) ==
    IF s = <<>> THEN <<>>
    ELSE IF Head(s) \in cs THEN LStripSet(Tail(s), cs) ELSE s

RECURSIVE RStripSet(_, _)
RStripSet(s, cs) ==
    IF s = <<>> THEN <<>>
    ELSE IF s[Len(s)] \in cs THEN RStripSet(SubSeq(s, 1, Len(s) - 1), cs) ELSE s

StripSet(s, cs) == RStripSet(LStripSet(s, cs), cs)

Strip(s) == StripSet(s, WS)

\* re.sub(r'\s+', ' ', s)
RECURSIVE CollapseWs(_)
CollapseWs(s) ==
    IF s = <<>> THEN <<>>
    ELSE IF Head(s) \in WS THEN <<" ">> \o CollapseWs(LStripSet(Tail(s), WS))
    ELSE <<Head(s)>> \o CollapseWs(Tail(s))

\* faulty variant of line 178: the whitespace after the run is left in place
StripLeadingPunctOnly(s) == LStripSet(s, LeadPunct)

\* re.sub(r'^[?!]+\s*', '', s)
StripLeadingPunct(s) ==
    IF s # <<>> /\ Head(s) \in LeadPunct
    THEN LStripSet(LStripSet(s, LeadPunct), WS)
    ELSE s

\* str.split(sep) for a one-character separator: the pieces between separators
RECURSIVE SplitOn(_, _, _)
SplitOn(s, sep, cur) ==
    IF s = <<>> THEN <<cur>>
    ELSE IF Head(s) = sep THEN <<cur>> \o SplitOn(Tail(s), sep, <<>>)
    ELSE SplitOn(Tail(s), sep, Append(cur, Head(s)))

\* str.split() without argument: the maximal runs of non-whitespace
RECURSIVE SplitWs(_, _)
SplitWs(s, cur) ==
    IF s = <<>> THEN (IF cur = <<>> THEN <<>> ELSE <<cur>>)
    ELSE IF Head(s) \in WS
         THEN (IF cur = <<>> THEN <<>> ELSE <<cur>>) \o SplitWs(Tail(s), <<>>)
         ELSE SplitWs(Tail(s), Append(cur, Head(s)))

\* sub in s
Contains(s, sub) ==
    \E i \in 1..(Len(s) + 1) :
        /\ i + Len(sub) - 1 <= Len(s)
        /\ SubSeq(s, i, i + Len(sub) - 1) = sub

\* s.endswith(suf)
EndsWith(s, suf) ==
    /\ Len(suf) <= Len(s)
    /\ SubSeq(s, Len(s) - Len(suf) + 1, Len(s)) = suf

RECURSIVE SelectSeqP(_, _)
SelectSeqP(s, keep) ==
    IF s = <<>> THEN <<>>
    ELSE IF Head(s) \in keep THEN <<Head(s)>> \o SelectSeqP(Tail(s), keep)
    ELSE SelectSeqP(Tail(s), keep)

Min(a, b) == IF a < b THEN a ELSE b

Max(a, b) == IF a > b THEN a ELSE b

RECURSIVE SeqSum(_)
SeqSum(s) == IF s = <<>> THEN 0 ELSE Head(s) + SeqSum(Tail(s))

RECURSIVE SeqMax(_)
SeqMax(s) == IF Len(s) = 1 THEN s[1] ELSE Max(Head(s), SeqMax(Tail(s)))

\* all sequences over S of length 0..n
SeqsUpTo(S, n) == UNION {[1..k -> S] : k \in 0..n}

\* Optional values (None or a value)
NoneVal == [isNone |-> TRUE, val |-> <<>>]

Some(x) == [isNone |-> FALSE, val |-> x]

\* Python truthiness of an optional list
Truthy(o) == ~o.isNone /\ o.val # <<>>

(***************************************************************************)
(* _preprocess_query                                                        *)
(***************************************************************************)
StopWords == {
    <<"w", "h", "a", "t">>, <<"i", "s">>, <<"t", "h", "e">>, <<"a">>,
    <<"a", "n">>, <<"a", "r", "e">>, <<"a", "n", "d">>, <<"o", "r">>,
    <<"b", "u", "t">>, <<"i", "n">>, <<"o", "n">>, <<"a", "t">>, <<"t", "o">>,
    <<"f", "o", "r">>, <<"o", "f">>, <<"w", "i", "t", "h">>, <<"b", "y">>,
    <<"f", "r", "o", "m">>, <<"u", "p">>, <<"a", "b", "o", "u", "t">>,
    <<"c", "a", "n">>, <<"t", "h", "a", "t">>, <<"t", "h", "i", "s">>,
    <<"d", "o">>, <<"d", "o", "e", "s">>, <<"d", "i", "d">>,
    <<"w", "i", "l", "l">>, <<"w", "o", "u", "l", "d">>,
    <<"c", "o", "u", "l", "d">>, <<"s", "h", "o", "u", "l", "d">>,
    <<"m", "a", "y">>, <<"m", "i", "g", "h", "t">>, <<"m", "u", "s", "t">>
}

\* A query argument: a str (kind "str", val its characters), None or a non-str
StrQuery(s) == [kind |-> "str", val |-> s]

NoneQuery == [kind |-> "none", val |-> <<>>]

IntQuery == [kind |-> "int", val |-> <<>>]

\* faulty variant of the validation: the whitespace-only test is missing
InvalidQueryNoStrip(q) == q.kind # "str" \/ q.val = <<>>

\* line 171: not query or not isinstance(query, str) or not query.strip()
InvalidQuery(q) == q.kind # "str" \/ q.val = <<>> \/ Strip(q.val) = <<>>

\* lines 175, 178
CleanQuery(s) == StripLeadingPunct(Strip(CollapseWs(s)))

RECURSIVE KeywordsOf(_)
KeywordsOf(words) ==
    IF words = <<>> THEN <<>>
    ELSE LET clean_w == StripSet(Head(words), KeywordPunct)
         IN  (IF clean_w \notin StopWords /\ Len(clean_w) > 2
              THEN <<clean_w>> ELSE <<>>) \o KeywordsOf(Tail(words))

\* lines 188-195
ExtractKeywords(cleaned) == KeywordsOf(SplitWs(Lower(cleaned), <<>>))

(***************************************************************************)
(* compute_confidence.  A similarity is an integer number of hundredths.   *)
(* The weighted score is the fraction wNum / wDen.                          *)
(***************************************************************************)
CONF_NOT_FOUND == 60     \* CONFIDENCE_THRESHOLDS["NOT_FOUND"] = 0.60

CONF_LOW == 75           \* CONFIDENCE_THRESHOLDS["LOW"] = 0.75

CONF_MEDIUM == 90        \* CONFIDENCE_THRESHOLDS["MEDIUM"] = 0.90

\* round-half-even of a / d  (round(x, 4) on the exact value)
RoundDiv(a, d) ==
    LET q == a \div d
        r == a % d
    IN  IF 2 * r > d THEN q + 1
        ELSE IF 2 * r = d THEN q + (q % 2)
        ELSE q

\* lines 230-234: pairs (text, keyword) with keyword.lower() in text.lower()
KeywordMatches(keywords, texts) ==
    Cardinality({p \in (1..Len(texts)) \X (1..Len(keywords)) :
                    Contains(Lower(texts[p[1]]), Lower(keywords[p[2]]))})

\* faulty variant of the tier mapping: NOT_FOUND ends at 0.50
TierOfLenient(num, den) ==
    IF 20 * num < 10 * den THEN "NOT_FOUND"
    ELSE IF 20 * num < (CONF_LOW \div 5) * den THEN "LOW"
    ELSE IF 20 * num < (CONF_MEDIUM \div 5) * den THEN "MEDIUM"
    ELSE "HIGH"

\* faulty variant of the tier mapping: HIGH starts at CONFIDENCE_THRESHOLDS["HIGH"]
TierOfHighAtOne(num, den) ==
    IF 20 * num < (CONF_NOT_FOUND \div 5) * den THEN "NOT_FOUND"
    ELSE IF 20 * num < (CONF_LOW \div 5) * den THEN "LOW"
    ELSE IF num < den THEN "MEDIUM"
    ELSE "HIGH"

\* faulty variant of the tier mapping: a score on a threshold stays below it
TierOfInclusive(num, den) ==
    IF 20 * num <= (CONF_NOT_FOUND \div 5) * den THEN "NOT_FOUND"
    ELSE IF 20 * num <= (CONF_LOW \div 5) * den THEN "LOW"
    ELSE IF 20 * num <= (CONF_MEDIUM \div 5) * den THEN "MEDIUM"
    ELSE "HIGH"

\* lines 254-261, on the fraction num / den (den > 0)
TierOf(num, den) ==
    IF 20 * num < (CONF_NOT_FOUND \div 5) * den THEN "NOT_FOUND"
    ELSE IF 20 * num < (CONF_LOW \div 5) * den THEN "LOW"
    ELSE IF 20 * num < (CONF_MEDIUM \div 5) * den THEN "MEDIUM"
    ELSE "HIGH"

\* faulty variant of the penalty term: unstable retrieval is not demoted
VariancePenaltyNone(varNum, m) == 0

\* line 243: 0.15 * variance, as a numerator over 200000 * n^2 * m
VariancePenalty(varNum, m) == 3 * varNum * m

\* lines 216-271
ComputeConfidence(similarities, query_keywords, chunk_texts) ==
    IF similarities = <<>>
    THEN [tier |-> "NOT_FOUND", score |-> 0, maxScore |-> 0,
          keywordBonus |-> 0, wNum |-> 0, wDen |-> 1]
    ELSE
    LET n == Len(similarities)
        max_score == SeqMax(similarities)
        total == SeqSum(similarities)
        sumsq == SeqSum([i \in 1..n |-> similarities[i] * similarities[i]])
        \* variance = varNum / (n^2 * 10^4)
        varNum == n * sumsq - total * total
        bonusOn == Truthy(query_keywords) /\ Truthy(chunk_texts)
        m == IF bonusOn THEN Len(chunk_texts.val) ELSE 1
        matches == IF bonusOn
                   THEN KeywordMatches(query_keywords.val, chunk_texts.val)
                   ELSE 0
        \* keyword_bonus = min(0.05, matches / m * 0.10) = bonus20 / (20 * m)
        bonus20 == Min(m, 2 * matches)
        den == 200000 * n * n * m
        weighted == 1500 * max_score * n * n * m
                    + 500 * total * n * m
                    + bonus20 * 10000 * n * n
                    - VariancePenalty(varNum, m)
        clamped == Max(0, Min(den, weighted))
    IN  [tier |-> TierOf(clamped, den),
         score |-> RoundDiv(clamped, 20 * n * n * m),
         maxScore |-> max_score * 100,
         keywordBonus |-> RoundDiv(bonus20 * 500, m),
         wNum |-> clamped, wDen |-> den]

(***************************************************************************)
(* Exceptions and the except clauses of ask_question.  A handler maps the  *)
(* exception that reaches it to the exception that leaves it; NoError      *)
(* leaving a handler means the exception was swallowed and the code after  *)
(* the try statement runs.                                                  *)
(***************************************************************************)
Exc(kind, stage) == [kind |-> kind, stage |-> stage]

NoError == Exc("none", "none")

\* faulty variant of the embedding handler: the failed query is skipped
WrapEmbedSwallow(e) == NoError

\* lines 454-455: except Exception -> RAGError("Failed to embed query")
WrapEmbed(e) ==
    IF e.kind = "none" THEN e ELSE Exc("RAGError", "embed")

\* lines 477-481: RAGError is re-raised, anything else becomes RAGError
WrapRetrieval(e) ==
    IF e.kind \in {"none", "RAGError"} THEN e ELSE Exc("RAGError", "vector")

\* lines 548-550: except Exception -> RAGError("Failed to generate answer")
WrapGeneration(e) ==
    IF e.kind = "none" THEN e ELSE Exc("RAGError", "generation")

\* faulty variant of the outer handler: every exception is re-raised as it is
WrapOuterReraise(e) == e

\* lines 592-596: RAGError is re-raised, anything else becomes RAGError
WrapOuter(e) ==
    IF e.kind \in {"none", "RAGError"} THEN e ELSE Exc("RAGError", "pipeline")

(***************************************************************************)
(* Chunks.  The subject's collection holds the chunks of Corpus; the key   *)
(* sourceFormat is absent from a chunk whose sourceFormat is Missing.       *)
(***************************************************************************)
Missing == "<missing>"

Chunk(id, text, file, loc, fmt) ==
    [chunkId |-> id, text |-> text, fileName |-> file, locationRef |-> loc,
     sourceFormat |-> fmt]

Corpus == <<
    Chunk("c1", <<"a", "a", "a">>, <<"n">>, <<"1">>, "pdf"),
    Chunk("c2", <<"x", "y">>, <<"d", "/", "n">>, <<"1">>, "pdf"),
    Chunk("c3", <<"A", "A", "A", "z">>, <<"n">>, <<"2">>, "txt"),
    Chunk("c4", <<"x", "y">>, <<"m">>, <<"1">>, Missing) >>

\* Distances the vector search reports, in hundredths (cosine distance 0..2)
Distances == {0, 64, 200}

\* line 460: n_results = min(5, 8)
N_RESULTS == 5

\* line 492: chunk_dicts[:5]
PROMPT_CHUNKS == 5

\* line 469: similarity = max(0.0, 1.0 - d / 2.0), in hundredths
SimilarityOf(d) == Max(0, 100 - (d \div 2))

\* A search result: distinct chunks of the collection, nearest first
IsSearchResult(hits) ==
    /\ \A i, j \in 1..Len(hits) : i < j =>
          /\ hits[i].idx # hits[j].idx
          /\ hits[i].distance <= hits[j].distance

SearchResults ==
    {hits \in SeqsUpTo([idx : 1..Len(Corpus), distance : Distances],
                       Min(MaxHits, N_RESULTS)) : IsSearchResult(hits)}

\* lines 471-475: one chunk dict per result
ChunkDicts(hits) ==
    [i \in 1..Len(hits) |->
        [chunkId |-> Corpus[hits[i].idx].chunkId,
         text |-> Corpus[hits[i].idx].text,
         fileName |-> Corpus[hits[i].idx].fileName,
         locationRef |-> Corpus[hits[i].idx].locationRef,
         sourceFormat |-> Corpus[hits[i].idx].sourceFormat,
         similarity |-> SimilarityOf(hits[i].distance)]]

Take(s, n) == SubSeq(s, 1, Min(n, Len(s)))

(***************************************************************************)
(* _generate_multi_queries.  A reply of the auxiliary model is            *)
(* [ok |-> FALSE] when the call raises, else its text.                      *)
(***************************************************************************)
AuxFail == [ok |-> FALSE, text |-> <<>>]

AuxReply(text) == [ok |-> TRUE, text |-> text]

\* list(dict.fromkeys(xs)): first occurrences, in order
RECURSIVE UniqueSeq(_, _)
UniqueSeq(xs, seen) ==
    IF xs = <<>> THEN <<>>
    ELSE IF Head(xs) \in seen THEN UniqueSeq(Tail(xs), seen)
    ELSE <<Head(xs)>> \o UniqueSeq(Tail(xs), seen \cup {Head(xs)})

RECURSIVE StrippedNonEmpty(_)
StrippedNonEmpty(lines) ==
    IF lines = <<>> THEN <<>>
    ELSE (IF Strip(Head(lines)) # <<>> THEN <<Strip(Head(lines))>> ELSE <<>>)
         \o StrippedNonEmpty(Tail(lines))

\* faulty variant of the expansion: every line of the reply is kept
GenerateMultiQueriesNoCap(query, reply) ==
    IF ~reply.ok THEN <<query>>
    ELSE UniqueSeq(<<query>> \o
            StrippedNonEmpty(SplitOn(Strip(reply.text), "\n", <<>>)), {})

\* lines 86-98
GenerateMultiQueries(query, reply) ==
    IF ~reply.ok THEN <<query>>
    ELSE UniqueSeq(<<query>> \o
            Take(StrippedNonEmpty(SplitOn(Strip(reply.text), "\n", <<>>)), 3),
            {})

(***************************************************************************)
(* _rerank_chunks                                                          *)
(***************************************************************************)
Digits == {"0", "1", "2", "3", "4", "5", "6", "7", "8", "9"}

DigitVal(c) ==
    CASE c = "0" -> 0 [] c = "1" -> 1 [] c = "2" -> 2 [] c = "3" -> 3
      [] c = "4" -> 4 [] c = "5" -> 5 [] c = "6" -> 6 [] c = "7" -> 7
      [] c = "8" -> 8 [] c = "9" -> 9

\* [int(r) for r in re.findall(r'\d+', text)]: cur is the number being read,
\* or -1 between numbers
RECURSIVE FindAllNumbers(_, _)
FindAllNumbers(text, cur) ==
    IF text = <<>> THEN (IF cur >= 0 THEN <<cur>> ELSE <<>>)
    ELSE IF Head(text) \in Digits
         THEN FindAllNumbers(Tail(text),
                             (IF cur >= 0 THEN 10 * cur ELSE 0) + DigitVal(Head(text)))
         ELSE (IF cur >= 0 THEN <<cur>> ELSE <<>>) \o FindAllNumbers(Tail(text), -1)

RECURSIVE SelectBelow(_, _)
SelectBelow(ids, n) ==
    IF ids = <<>> THEN <<>>
    ELSE (IF Head(ids) < n THEN <<Head(ids)>> ELSE <<>>) \o SelectBelow(Tail(ids), n)

\* faulty variant of the order: the chunks not mentioned are not appended
RerankOrderMentionedOnly(text, n) ==
    UniqueSeq(SelectBelow(FindAllNumbers(text, -1), n), {})

\* lines 141-154: the order of the 0-based indices after reranking
RerankOrder(text, n) ==
    LET ranked == UniqueSeq(SelectBelow(FindAllNumbers(text, -1), n), {})
        mentioned == {ranked[i] : i \in 1..Len(ranked)}
        idsInOrder == [i \in 1..n |-> i - 1]
    IN  ranked \o SelectSeqP(idsInOrder, (0..(n - 1)) \ mentioned)

\* faulty variant of the reranker: a failed auxiliary call loses the chunks
RerankChunksDropOnFail(chunks, reply) ==
    IF chunks = <<>> THEN <<>>
    ELSE IF Len(chunks) <= 2 THEN chunks
    ELSE IF ~reply.ok THEN <<>>
    ELSE LET order == RerankOrder(reply.text, Len(chunks))
         IN  [i \in 1..Len(order) |-> chunks[order[i] + 1]]

\* lines 105-159
RerankChunks(chunks, reply) ==
    IF chunks = <<>> THEN <<>>
    ELSE IF Len(chunks) <= 2 THEN chunks
    ELSE IF ~reply.ok THEN chunks
    ELSE LET order == RerankOrder(reply.text, Len(chunks))
         IN  [i \in 1..Len(order) |-> chunks[order[i] + 1]]

(***************************************************************************)
(* _deduplicate_chunks.  hash is the str hash of the running process, a     *)
(* function from texts to hash values (it depends on the hash seed of the   *)
(* process and may give two texts one value).                               *)
(***************************************************************************)
\* lines 289-294: the loop over the chunks still to process
RECURSIVE DedupFrom(_, _, _)
DedupFrom(chunks, seen_hashes, hash) ==
    IF chunks = <<>> THEN <<>>
    ELSE IF hash[Head(chunks).text] \in seen_hashes
         THEN DedupFrom(Tail(chunks), seen_hashes, hash)
         ELSE <<Head(chunks)>>
              \o DedupFrom(Tail(chunks),
                        seen_hashes \cup {hash[Head(chunks).text]}, hash)

\* faulty variant of line 283: a list of two chunks is returned as it is
DeduplicateChunksUpToTwo(chunks, hash) ==
    IF Len(chunks) <= 2 THEN chunks ELSE DedupFrom(chunks, {}, hash)

\* faulty variant of line 287: the first hash is seen before the loop starts
DeduplicateChunksSeenFirst(chunks, hash) ==
    IF Len(chunks) <= 1 THEN chunks
    ELSE DedupFrom(chunks, {hash[chunks[1].text]}, hash)

\* lines 283-299
DeduplicateChunks(chunks, hash) ==
    IF Len(chunks) <= 1 THEN chunks ELSE DedupFrom(chunks, {}, hash)

\* the str hash of a process in which no two texts of the corpus collide
CorpusHash == [t \in {Corpus[i].text : i \in 1..Len(Corpus)} |-> t]

(***************************************************************************)
(* Answer texts.  A text is a sequence of segments: a run of plain text    *)
(* (an atom) or a marker "[SOURCE:" \s* name "," \s* loc "]" with the two   *)
(* groups the pattern of extract_citations captures, character by          *)
(* character.                                                               *)
(***************************************************************************)
Txt(str) == [t |-> "txt", s |-> str, name |-> <<>>, loc |-> <<>>]

Src(name, loc) == [t |-> "src", s |-> "", name |-> name, loc |-> loc]

\* NOT_FOUND_TEMPLATE.format(subject_name=subject_name), line 14
NOT_FOUND_PREFIX == "Not found in your notes for "

\* faulty variant of the template: the subject name is not interpolated
NotFoundTemplateFixed(subject_name) == <<Txt(NOT_FOUND_PREFIX), Txt("Biology")>>

NotFoundTemplate(subject_name) == <<Txt(NOT_FOUND_PREFIX), Txt(subject_name)>>

\* plain-text atoms whose lower-case form starts with "not found in your notes"
NotFoundStarts ==
    {NOT_FOUND_PREFIX, "NOT FOUND IN YOUR NOTES.", "not found in your notes"}

\* whitespace-only plain-text atoms
BlankAtoms == {"", " ", "\n"}

IsBlankSeg(seg) == seg.t = "txt" /\ seg.s \in BlankAtoms

RECURSIVE LStripAnswer(_)
LStripAnswer(a) ==
    IF a = <<>> THEN <<>>
    ELSE IF IsBlankSeg(Head(a)) THEN LStripAnswer(Tail(a)) ELSE a

RECURSIVE RStripAnswer(_)
RStripAnswer(a) ==
    IF a = <<>> THEN <<>>
    ELSE IF IsBlankSeg(a[Len(a)]) THEN RStripAnswer(SubSeq(a, 1, Len(a) - 1))
    ELSE a

\* line 547: (response.text or "").strip(); a None text is the empty text
StripAnswer(a) == RStripAnswer(LStripAnswer(a))

\* line 553: answer_text.lower().startswith("not found in your notes")
StartsWithNotFound(a) ==
    a # <<>> /\ a[1].t = "txt" /\ a[1].s \in NotFoundStarts

(***************************************************************************)
(* extract_citations                                                       *)
(***************************************************************************)
\* faulty variant of the match: the location is not compared
ChunkMatchesAnyLocation(chunk, filename, location) ==
    chunk.fileName = filename \/ EndsWith(chunk.fileName, filename)

\* lines 345-346
ChunkMatches(chunk, filename, location) ==
    /\ (chunk.fileName = filename \/ EndsWith(chunk.fileName, filename))
    /\ chunk.locationRef = location

\* faulty variant of the loop of line 343: the last matching chunk wins
FirstMatchLast(chunks, filename, location) ==
    LET hits == {i \in 1..Len(chunks) : ChunkMatches(chunks[i], filename, location)}
    IN  IF hits = {} THEN 0 ELSE CHOOSE i \in hits : \A j \in hits : i >= j

\* lines 343-354: the first chunk that matches, 0 when none does (break)
FirstMatch(chunks, filename, location) ==
    LET hits == {i \in 1..Len(chunks) : ChunkMatches(chunks[i], filename, location)}
    IN  IF hits = {} THEN 0 ELSE CHOOSE i \in hits : \A j \in hits : i <= j

CitationOf(chunk) ==
    [fileName |-> chunk.fileName, locationRef |-> chunk.locationRef,
     chunkId |-> chunk.chunkId, sourceFormat |-> chunk.sourceFormat]

\* faulty variant of line 353: a resolved marker is not remembered
SeenAfterForget(seen, sig) == seen

\* line 353: seen.add(sig)
SeenAfter(seen, sig) == seen \cup {sig}

\* lines 333-354: markers are the (name, loc) groups still to process
RECURSIVE CitationsFrom(_, _, _)
CitationsFrom(markers, chunks, seen) ==
    IF markers = <<>> THEN <<>>
    ELSE LET filename == Strip(Head(markers).name)
             location == Strip(Head(markers).loc)
             sig == filename \o <<"_">> \o location
             k == FirstMatch(chunks, filename, location)
         IN  IF sig \in seen \/ k = 0
             THEN CitationsFrom(Tail(markers), chunks, seen)
             ELSE <<CitationOf(chunks[k])>>
                  \o CitationsFrom(Tail(markers), chunks, SeenAfter(seen, sig))

\* the literal "[SOURCE:" of the pattern, one element of a text
SRC_OPEN == "[SOURCE:"

\* the characters of an answer text: an atom of plain text is one element
\* (it holds no comma, bracket or line break unless it is one), a marker is
\* written "[SOURCE: name, loc]"
RECURSIVE Render(_)
Render(answer) ==
    IF answer = <<>> THEN <<>>
    ELSE LET seg == Head(answer)
         IN  (IF seg.t = "src"
              THEN <<SRC_OPEN, " ">> \o seg.name \o <<",", " ">> \o seg.loc
                   \o <<"]">>
              ELSE IF seg.s = "" THEN <<>> ELSE <<seg.s>>)
             \o Render(Tail(answer))

\* \s* from position i: the first position that is not whitespace
RECURSIVE SkipWs(_, _)
SkipWs(text, i) ==
    IF i <= Len(text) /\ text[i] \in WS THEN SkipWs(text, i + 1) ELSE i

\* (.*?)\] from position j: the position of the first "]", 0 when a line
\* break or the end of the text comes first ("." matches no line break)
RECURSIVE NextClose(_, _)
NextClose(text, j) ==
    IF j > Len(text) \/ text[j] = "\n" THEN 0
    ELSE IF text[j] = "]" THEN j
    ELSE NextClose(text, j + 1)

NoMatch == [found |-> FALSE, name |-> <<>>, loc |-> <<>>, end |-> 0]

\* (.*?),\s*(.*?)\] with the name starting at p: the first comma at e or
\* later after which the rest of the pattern matches
RECURSIVE MatchName(_, _, _)
MatchName(text, p, e) ==
    IF e > Len(text) \/ text[e] = "\n" THEN NoMatch
    ELSE IF text[e] = ","
    THEN LET q == SkipWs(text, e + 1)
             f == NextClose(text, q)
         IN  IF f # 0
             THEN [found |-> TRUE, name |-> SubSeq(text, p, e - 1),
                   loc |-> SubSeq(text, q, f - 1), end |-> f + 1]
             ELSE MatchName(text, p, e + 1)
    ELSE MatchName(text, p, e + 1)

\* the pattern of line 327 tried at position i
MatchAt(text, i) ==
    IF text[i] # SRC_OPEN THEN NoMatch
    ELSE LET p == SkipWs(text, i + 1) IN MatchName(text, p, p)

\* re.findall(pattern, text) from position i: the groups (name, loc) of the
\* non-overlapping matches, left to right
RECURSIVE FindAllMarkers(_, _)
FindAllMarkers(text, i) ==
    IF i > Len(text) THEN <<>>
    ELSE LET m == MatchAt(text, i)
         IN  IF m.found
             THEN <<[name |-> m.name, loc |-> m.loc]>>
                  \o FindAllMarkers(text, m.end)
             ELSE FindAllMarkers(text, i + 1)

\* re.findall(pattern, answer_text): the groups of the markers, in order
MarkersOf(answer) == FindAllMarkers(Render(answer), 1)

\* lines 314-357
ExtractCitations(answer_text, chunks) ==
    CitationsFrom(MarkersOf(answer_text), chunks, {})

(***************************************************************************)
(* build_sources_block, _build_evidence_snippets, _not_found_response      *)
(***************************************************************************)
\* lines 304-311: chunk['sourceFormat'] raises KeyError when the key is absent
SourcesBlockRaises(chunks) ==
    \E i \in 1..Len(chunks) : chunks[i].sourceFormat = Missing

\* lines 369-383: the chunks whose snippets are listed, by chunkId
BuildEvidenceSnippets(chunks, citations, limit) ==
    LET keys == {<<citations[i].fileName, citations[i].locationRef>> :
                    i \in 1..Len(citations)}
        preferred == SelectSeq(chunks,
                        LAMBDA c : <<c.fileName, c.locationRef>> \in keys)
        prefSet == {preferred[i] : i \in 1..Len(preferred)}
        ordered == preferred \o SelectSeq(chunks, LAMBDA c : c \notin prefSet)
        shown == Take(ordered, limit)
    IN  [i \in 1..Len(shown) |-> shown[i].chunkId]

TopChunkIds(chunks) ==
    LET kept == SelectSeq(chunks, LAMBDA c : c.chunkId # "")
    IN  [i \in 1..Len(kept) |-> kept[i].chunkId]

\* faulty variant of the refusal: the retrieved chunks are listed as citations
NotFoundResponseCitesChunks(subject_name, confidence_score, chunks) ==
    [answer |-> NotFoundTemplate(subject_name),
     confidenceTier |-> "NOT_FOUND",
     confidenceScore |-> confidence_score,
     citations |-> [i \in 1..Len(chunks) |-> CitationOf(chunks[i])],
     evidenceSnippets |-> BuildEvidenceSnippets(chunks, <<>>, 3),
     topChunkIds |-> TopChunkIds(chunks),
     diagnostics |-> FALSE]

\* lines 386-399
NotFoundResponse(subject_name, confidence_score, chunks) ==
    [answer |-> NotFoundTemplate(subject_name),
     confidenceTier |-> "NOT_FOUND",
     confidenceScore |-> confidence_score,
     citations |-> <<>>,
     evidenceSnippets |-> BuildEvidenceSnippets(chunks, <<>>, 3),
     topChunkIds |-> TopChunkIds(chunks),
     diagnostics |-> FALSE]

\* lines 577-590
AnswerResponse(answer_text, confidence, citations, chunks) ==
    [answer |-> answer_text,
     confidenceTier |-> confidence.tier,
     confidenceScore |-> confidence.score,
     citations |-> citations,
     evidenceSnippets |-> BuildEvidenceSnippets(chunks, citations, 3),
     topChunkIds |-> TopChunkIds(chunks),
     diagnostics |-> TRUE]

(***************************************************************************)
(* Inputs of ask_question and replies of its collaborators.                 *)
(***************************************************************************)
SubjectNames == {"Biology", "Math"}

\* queries that pass validation
ValidQueries == {
    <<"a", "a", "a">>,
    <<" ", "?", "x", "\t", "\n">>,
    <<"?", "!">> }

Queries ==
    {StrQuery(q) : q \in SeqsUpTo(WS, MaxBlankLen) \cup ValidQueries}
    \cup {NoneQuery, IntQuery}

\* texts the auxiliary model answers the expansion prompt with
ExpandTexts == { <<"\n">>, <<" ", "b", "\n", "\n", "b", " ">> }

\* texts the auxiliary model answers the rerank prompt with
RerankTexts == { <<"2", ",", "0">>, <<"1", " ", "1", ",", "1", "2">> }

AuxReplies(texts) == {AuxFail} \cup {AuxReply(t) : t \in texts}

\* texts the primary model answers with (response.text; None is the empty text)
PrimaryTexts(subject_name) == {
    <<>>,
    <<Txt(" ")>>,
    NotFoundTemplate(subject_name),
    <<Txt("NOT FOUND IN YOUR NOTES."), Src(<<"n">>, <<"1">>)>>,
    <<Txt("Plants make sugar.")>>,
    <<Txt("Plants make sugar. "), Src(<<"n", " ">>, <<"1">>), Txt("\n")>>,
    <<Src(<<"n">>, <<"2">>), Txt(" and "), Src(<<"n">>, <<"2", " ">>)>>,
    <<Txt("See "), Src(<<"q">>, <<"1">>)>> }

(***************************************************************************)
(* State of one ask_question request.                                       *)
(***************************************************************************)
VARIABLES
    pc,               \* position in ask_question, "returned" or "raised"
    query,            \* argument query
    subject_name,     \* argument subject_name
    cleaned_query,    \* line 438
    keywords,         \* line 438
    multi_queries,    \* line 442
    qi,               \* 1-based position of the loop of line 451
    collection,       \* line 448: FALSE is None
    all_chunk_dicts,  \* line 446
    chunk_dicts,      \* lines 484-492
    confidence,       \* line 503
    result,           \* the dict returned
    error,            \* the exception raised
    calls,            \* external calls made so far, in order
    expand_reply,     \* what the auxiliary model did for the expansion
    rerank_reply,     \* what the auxiliary model did for the reranking
    primary_reply,    \* what the primary model did
    cSims,            \* compute_confidence called alone: similarities
    cKeywords,        \*   query_keywords
    cTexts,           \*   chunk_texts
    cResult,          \*   the dict returned
    cPc,              \*   "idle", "input" or "done"
    cPrev,            \*   the call before this one: its input and its dict
    eText,            \* extract_citations called alone: answer_text
    eChunks,          \*   chunks
    eCitations,       \*   the list returned
    ePc,              \*   "idle", "input" or "done"
    dChunks,          \* _deduplicate_chunks called alone: chunks
    dHash,            \*   the str hash of the process
    dOnce,            \*   the list returned
    dTwice,           \*   the list returned for that list
    dPc,              \*   "idle", "input", "once" or "twice"
    rChunks,          \* _rerank_chunks called alone: chunks
    rReply,           \*   what the auxiliary model did
    rResult,          \*   the list returned
    rPc,              \*   "idle", "input" or "done"
    mQuery,           \* _generate_multi_queries called alone: query
    mReply,           \*   what the auxiliary model did
    mResult,          \*   the list returned
    mPc               \*   "idle", "input" or "done"

pipeVars == <<pc, query, subject_name, cleaned_query, keywords, multi_queries,
              qi, collection, all_chunk_dicts, chunk_dicts, confidence, result,
              error, calls, expand_reply, rerank_reply, primary_reply>>

confVars == <<cSims, cKeywords, cTexts, cResult, cPc, cPrev>>

citeVars == <<eText, eChunks, eCitations, ePc>>

dedupVars == <<dChunks, dHash, dOnce, dTwice, dPc>>

rerankVars == <<rChunks, rReply, rResult, rPc>>

expandVars == <<mQuery, mReply, mResult, mPc>>

\* ---- state of the units modelled after the pipeline ----
\* two requests on one event loop
VARIABLES
    lPos,      \* position of each request in the sequence of its external calls
    lMode,     \* "ready", "awaiting", "blocking" or "done", for each request
    loopHeld   \* the request whose call the event-loop thread is inside, 0 when none

loopVars == <<lPos, lMode, loopHeld>>

\* the aggregation stage run twice on the same retrieval results
VARIABLES
    oFirst,   \* the hits of the first expanded query
    oSecond,  \* the hits of the second expanded query
    oOutA,    \* what reaches scoring and the prompt in the first run
    oOutB,    \* what reaches scoring and the prompt in the second run
    oPc       \* "idle", "input", "once" or "twice"

orderVars == <<oFirst, oSecond, oOutA, oOutB, oPc>>

\* the prompt built from a conversation history, and the citations of the answer
VARIABLES
    hHistory,    \* the history argument of ask_question
    hAnswer,     \* the text the primary model answers with
    hBlock,      \* the turns written into the history block of the prompt
    hCitations,  \* the citations extracted from the answer
    hPc          \* "idle", "input" or "done"

histVars == <<hHistory, hAnswer, hBlock, hCitations, hPc>>

\* _preprocess_query called on its own
VARIABLES
    pQuery,     \* the query given
    pClean,     \* the cleaned query returned
    pKeywords,  \* the keywords returned
    pPc         \* "idle", "input", "done" or "raised"

preVars == <<pQuery, pClean, pKeywords, pPc>>

\* the embedding of the expanded queries, with the retries of each
VARIABLES
    tQueries,  \* multi_queries
    tQi,       \* index of the query being embedded
    tAttempt,  \* attempt of _embed_with_retry
    tLog,      \* for each query, the API calls made and the sleeps taken, in order
    tError,    \* the exception ask_question raises
    tPc        \* "idle", "embed", "call", "sleep", "returned" or "raised"

retryVars == <<tQueries, tQi, tAttempt, tLog, tError, tPc>>

\* chunk_text called on its own
VARIABLES
    kPieces,  \* the stripped lengths of the raw pieces the splitter returns
    kResult,  \* the chunks returned
    kPc       \* "idle", "input", "done" or "raised"

chunkVars == <<kPieces, kResult, kPc>>

\* one request to the /ask route
VARIABLES
    uReq,       \* the request: whether its subject exists, whether it names a session, whether its query is a follow-up
    uEnv,       \* the collaborators: the turns stored for the session, what the pipeline does for the query, the database step that fails
    uTurns,     \* recent_turns
    uResolved,  \* resolved_query and context_used
    uOut,       \* the response status and detail, the entries written, whether ask_question ran
    uPc         \* "idle", "start", "turns", "ask" or "done"

routeVars == <<uReq, uEnv, uTurns, uResolved, uOut, uPc>>

earlyVars == <<confVars, citeVars, dedupVars, rerankVars, expandVars>>

lateVars == <<loopVars, orderVars, histVars, preVars, retryVars, chunkVars, routeVars>>

\* everything but the state of this unit
loopRest == <<pipeVars, earlyVars, orderVars, histVars, preVars, retryVars, chunkVars, routeVars>>

\* everything but the state of this unit
orderRest == <<pipeVars, earlyVars, loopVars, histVars, preVars, retryVars, chunkVars, routeVars>>

\* everything but the state of this unit
histRest == <<pipeVars, earlyVars, loopVars, orderVars, preVars, retryVars, chunkVars, routeVars>>

\* everything but the state of this unit
preRest == <<pipeVars, earlyVars, loopVars, orderVars, histVars, retryVars, chunkVars, routeVars>>

\* everything but the state of this unit
retryRest == <<pipeVars, earlyVars, loopVars, orderVars, histVars, preVars, chunkVars, routeVars>>

\* everything but the state of this unit
chunkRest == <<pipeVars, earlyVars, loopVars, orderVars, histVars, preVars, retryVars, routeVars>>

\* everything but the state of this unit
routeRest == <<pipeVars, earlyVars, loopVars, orderVars, histVars, preVars, retryVars, chunkVars>>
\* ---- end of that state ----

unitVars == <<earlyVars, lateVars>>

vars == <<pipeVars, unitVars>>

NoConfidence ==
    [tier |-> "NONE", score |-> 0, maxScore |-> 0, keywordBonus |-> 0,
     wNum |-> 0, wDen |-> 1]

NoResult ==
    [answer |-> <<>>, confidenceTier |-> "NONE", confidenceScore |-> 0,
     citations |-> <<>>, evidenceSnippets |-> <<>>, topChunkIds |-> <<>>,
     diagnostics |-> FALSE]

NoReply == [ok |-> FALSE, text |-> <<>>]

PipeStart(q, s) ==
    /\ pc = "start"
    /\ query = q
    /\ subject_name = s
    /\ cleaned_query = <<>>
    /\ keywords = <<>>
    /\ multi_queries = <<>>
    /\ qi = 0
    /\ collection = FALSE
    /\ all_chunk_dicts = <<>>
    /\ chunk_dicts = <<>>
    /\ confidence = NoConfidence
    /\ result = NoResult
    /\ error = NoError
    /\ calls = <<>>
    /\ expand_reply = NoReply
    /\ rerank_reply = NoReply
    /\ primary_reply = NoReply

ConfIdle ==
    /\ cSims = <<>>
    /\ cKeywords = NoneVal
    /\ cTexts = NoneVal
    /\ cResult = NoConfidence
    /\ cPc = "idle"
    /\ cPrev = NoneVal

CiteIdle ==
    /\ eText = <<>>
    /\ eChunks = <<>>
    /\ eCitations = <<>>
    /\ ePc = "idle"

DedupIdle ==
    /\ dChunks = <<>>
    /\ dHash = CorpusHash
    /\ dOnce = <<>>
    /\ dTwice = <<>>
    /\ dPc = "idle"

RerankIdle ==
    /\ rChunks = <<>>
    /\ rReply = NoReply
    /\ rResult = <<>>
    /\ rPc = "idle"

ExpandIdle ==
    /\ mQuery = <<>>
    /\ mReply = NoReply
    /\ mResult = <<>>
    /\ mPc = "idle"

\* ---- idle states of those units ----
LoopIdle ==
    /\ lPos = <<>>
    /\ lMode = <<>>
    /\ loopHeld = 0

OrderIdle ==
    /\ oFirst = <<>>
    /\ oSecond = <<>>
    /\ oOutA = <<>>
    /\ oOutB = <<>>
    /\ oPc = "idle"

HistIdle ==
    /\ hHistory = <<>>
    /\ hAnswer = <<>>
    /\ hBlock = <<>>
    /\ hCitations = <<>>
    /\ hPc = "idle"

PreIdle ==
    /\ pQuery = <<>>
    /\ pClean = <<>>
    /\ pKeywords = <<>>
    /\ pPc = "idle"

RetryIdle ==
    /\ tQueries = <<>>
    /\ tQi = 0
    /\ tAttempt = 0
    /\ tLog = <<>>
    /\ tError = NoError
    /\ tPc = "idle"

ChunkIdle ==
    /\ kPieces = <<>>
    /\ kResult = <<>>
    /\ kPc = "idle"

RouteIdle ==
    /\ uReq = <<>>
    /\ uEnv = <<>>
    /\ uTurns = <<>>
    /\ uResolved = <<>>
    /\ uOut = <<>>
    /\ uPc = "idle"

LateIdle ==
    /\ LoopIdle
    /\ OrderIdle
    /\ HistIdle
    /\ PreIdle
    /\ RetryIdle
    /\ ChunkIdle
    /\ RouteIdle
\* ---- end of the idle states ----

Init ==
    /\ \E q \in Queries, s \in SubjectNames : PipeStart(q, s)
    /\ ConfIdle
    /\ CiteIdle
    /\ DedupIdle
    /\ RerankIdle
    /\ ExpandIdle
    /\ LateIdle

Raise(e) ==
    /\ pc' = "raised"
    /\ error' = e

Return(r) ==
    /\ pc' = "returned"
    /\ result' = r

\* an entry of the log of calls: the call and whether it succeeded
Call(name, ok) == [name |-> name, ok |-> ok]

(***************************************************************************)
(* ask_question, one action per step between two external calls.            *)
(***************************************************************************)
\* line 438: _preprocess_query
Preprocess ==
    /\ pc = "start"
    /\ IF InvalidQuery(query)
       THEN /\ Raise(WrapOuter(Exc("RAGError", "validation")))
            /\ UNCHANGED <<cleaned_query, keywords>>
       ELSE /\ cleaned_query' = CleanQuery(query.val)
            /\ keywords' = ExtractKeywords(CleanQuery(query.val))
            /\ pc' = "expand"
            /\ UNCHANGED error
    /\ UNCHANGED <<query, subject_name, multi_queries, qi, collection,
                   all_chunk_dicts, chunk_dicts, confidence, result, calls,
                   expand_reply, rerank_reply, primary_reply, unitVars>>

\* line 442: _generate_multi_queries; the loop of line 451 is entered
Expand ==
    /\ pc = "expand"
    /\ \E reply \in AuxReplies(ExpandTexts) :
        /\ expand_reply' = reply
        /\ multi_queries' = GenerateMultiQueries(cleaned_query, reply)
        /\ pc' = IF GenerateMultiQueries(cleaned_query, reply) = <<>>
                 THEN "rank" ELSE "embed"
        /\ calls' = Append(calls, Call("aux_expand", reply.ok))
    /\ qi' = 1
    /\ UNCHANGED <<query, subject_name, cleaned_query, keywords, collection,
                   all_chunk_dicts, chunk_dicts, confidence, result, error,
                   rerank_reply, primary_reply, unitVars>>

\* embedding_service.embed_query lines 107-108: an empty query is refused
\* before the embedding API is called
EmbedRefuses(q) == q = <<>> \/ Strip(q) = <<>>

\* lines 452-455, embed_query returns the embedding
EmbedOk ==
    /\ pc = "embed"
    /\ ~EmbedRefuses(multi_queries[qi])
    /\ calls' = Append(calls, Call("embed", TRUE))
    /\ pc' = "search"
    /\ UNCHANGED <<query, subject_name, cleaned_query, keywords, multi_queries,
                   qi, collection, all_chunk_dicts, chunk_dicts, confidence,
                   result, error, expand_reply, rerank_reply, primary_reply,
                   unitVars>>

\* the loop of line 451 after an exception of its body was handled: the
\* exception propagates, or (swallowed) the loop goes on with the next query
LoopAfter(e) ==
    IF e.kind # "none"
    THEN /\ Raise(e)
         /\ UNCHANGED qi
    ELSE /\ qi' = qi + 1
         /\ pc' = IF qi = Len(multi_queries) THEN "rank" ELSE "embed"
         /\ UNCHANGED error

\* lines 452-455, embed_query raises EmbeddingError
EmbedFail ==
    /\ pc = "embed"
    /\ calls' = Append(calls, Call(IF EmbedRefuses(multi_queries[qi])
                                   THEN "embed_refused" ELSE "embed", FALSE))
    /\ LoopAfter(WrapOuter(WrapRetrieval(WrapEmbed(Exc("EmbeddingError", "embed")))))
    /\ UNCHANGED <<query, subject_name, cleaned_query, keywords, multi_queries,
                   collection, all_chunk_dicts, chunk_dicts, confidence,
                   result, expand_reply, rerank_reply, primary_reply, unitVars>>

\* lines 456-475, get_collection and collection.query succeed
SearchOk ==
    /\ pc = "search"
    /\ \E hits \in SearchResults :
        all_chunk_dicts' = all_chunk_dicts \o ChunkDicts(hits)
    /\ calls' = IF collection THEN Append(calls, Call("search", TRUE))
                ELSE calls \o <<Call("get_collection", TRUE), Call("search", TRUE)>>
    /\ collection' = TRUE
    /\ qi' = qi + 1
    /\ pc' = IF qi = Len(multi_queries) THEN "rank" ELSE "embed"
    /\ UNCHANGED <<query, subject_name, cleaned_query, keywords, multi_queries,
                   chunk_dicts, confidence, result, error, expand_reply,
                   rerank_reply, primary_reply, unitVars>>

\* lines 456-457 and 479-481, get_collection raises
GetCollectionFail ==
    /\ pc = "search"
    /\ ~collection
    /\ calls' = Append(calls, Call("get_collection", FALSE))
    /\ Raise(WrapOuter(WrapRetrieval(Exc("Exception", "get_collection"))))
    /\ UNCHANGED <<query, subject_name, cleaned_query, keywords, multi_queries,
                   qi, collection, all_chunk_dicts, chunk_dicts, confidence,
                   result, expand_reply, rerank_reply, primary_reply, unitVars>>

\* lines 458-462 and 479-481, collection.query raises
SearchFail ==
    /\ pc = "search"
    /\ calls' = IF collection THEN Append(calls, Call("search", FALSE))
                ELSE calls \o <<Call("get_collection", TRUE), Call("search", FALSE)>>
    /\ collection' = TRUE
    /\ Raise(WrapOuter(WrapRetrieval(Exc("Exception", "search"))))
    /\ UNCHANGED <<query, subject_name, cleaned_query, keywords, multi_queries,
                   qi, all_chunk_dicts, chunk_dicts, confidence, result,
                   expand_reply, rerank_reply, primary_reply, unitVars>>

\* faulty variant of the gate: only NOT_FOUND refuses
GateRefusesNotFoundOnly(tier) == tier = "NOT_FOUND"

\* line 512: confidence["tier"] in {"NOT_FOUND", "LOW"}
GateRefuses(tier) == tier \in {"NOT_FOUND", "LOW"}

Similarities(chunks) == [i \in 1..Len(chunks) |-> chunks[i].similarity]

Texts(chunks) == [i \in 1..Len(chunks) |-> chunks[i].text]

\* lines 492-542 for the reranked chunk list: truncate, score, gate, prompt
Gate(reranked) ==
    LET cut == Take(reranked, PROMPT_CHUNKS)
        conf == ComputeConfidence(Similarities(cut), Some(keywords),
                                  Some(Texts(cut)))
    IN  /\ chunk_dicts' = cut
        /\ IF cut = <<>>
           THEN /\ Return(NotFoundResponse(subject_name, 0, <<>>))
                /\ UNCHANGED <<confidence, error>>
           ELSE /\ confidence' = conf
                /\ IF GateRefuses(conf.tier)
                   THEN /\ Return(NotFoundResponse(subject_name, conf.score, cut))
                        /\ UNCHANGED error
                   ELSE IF SourcesBlockRaises(cut)
                   THEN /\ Raise(WrapOuter(Exc("KeyError", "prompt")))
                        /\ UNCHANGED result
                   ELSE /\ pc' = "generate"
                        /\ UNCHANGED <<result, error>>

\* lines 484-542 when at most 2 chunks are left: no auxiliary call
RankNoAux ==
    /\ pc = "rank"
    /\ Len(DeduplicateChunks(all_chunk_dicts, CorpusHash)) <= 2
    /\ Gate(RerankChunks(DeduplicateChunks(all_chunk_dicts, CorpusHash), NoReply))
    /\ UNCHANGED <<query, subject_name, cleaned_query, keywords, multi_queries,
                   qi, collection, all_chunk_dicts, calls, expand_reply,
                   rerank_reply, primary_reply, unitVars>>

\* lines 484-542 when the auxiliary model is asked to rerank
RankAux ==
    /\ pc = "rank"
    /\ Len(DeduplicateChunks(all_chunk_dicts, CorpusHash)) > 2
    /\ \E reply \in AuxReplies(RerankTexts) :
        /\ rerank_reply' = reply
        /\ calls' = Append(calls, Call("aux_rerank", reply.ok))
        /\ Gate(RerankChunks(DeduplicateChunks(all_chunk_dicts, CorpusHash), reply))
    /\ UNCHANGED <<query, subject_name, cleaned_query, keywords, multi_queries,
                   qi, collection, all_chunk_dicts, expand_reply,
                   primary_reply, unitVars>>

\* faulty variant of the backstop: an answer without citations is returned as it is
FinalResponseNoBackstop(subject, conf, chunks, answer_text) ==
    IF answer_text = <<>> \/ StartsWithNotFound(answer_text)
    THEN NotFoundResponse(subject, conf.score, chunks)
    ELSE AnswerResponse(answer_text, conf,
                        ExtractCitations(answer_text, chunks), chunks)

\* lines 552-590
FinalResponse(subject, conf, chunks, answer_text) ==
    IF answer_text = <<>> \/ StartsWithNotFound(answer_text)
    THEN NotFoundResponse(subject, conf.score, chunks)
    ELSE IF ExtractCitations(answer_text, chunks) = <<>>
    THEN NotFoundResponse(subject, conf.score, chunks)
    ELSE AnswerResponse(answer_text, conf,
                        ExtractCitations(answer_text, chunks), chunks)

\* lines 545-590, model.generate_content returns
GenerateOk ==
    /\ pc = "generate"
    /\ \E text \in PrimaryTexts(subject_name) :
        /\ primary_reply' = [ok |-> TRUE, text |-> text]
        /\ Return(FinalResponse(subject_name, confidence, chunk_dicts,
                                StripAnswer(text)))
    /\ calls' = Append(calls, Call("primary", TRUE))
    /\ UNCHANGED <<query, subject_name, cleaned_query, keywords, multi_queries,
                   qi, collection, all_chunk_dicts, chunk_dicts, confidence,
                   error, expand_reply, rerank_reply, unitVars>>

\* lines 545-550, model.generate_content raises
GenerateFail ==
    /\ pc = "generate"
    /\ calls' = Append(calls, Call("primary", FALSE))
    /\ Raise(WrapOuter(WrapGeneration(Exc("Exception", "generate"))))
    /\ UNCHANGED <<query, subject_name, cleaned_query, keywords, multi_queries,
                   qi, collection, all_chunk_dicts, chunk_dicts, confidence,
                   result, expand_reply, rerank_reply, primary_reply, unitVars>>

Next ==
    \/ Preprocess
    \/ Expand
    \/ EmbedOk
    \/ EmbedFail
    \/ SearchOk
    \/ GetCollectionFail
    \/ SearchFail
    \/ RankNoAux
    \/ RankAux
    \/ GenerateOk
    \/ GenerateFail

Spec == Init /\ [][Next]_vars

(***************************************************************************)
(* compute_confidence called on its own, for every input of a bounded set. *)
(***************************************************************************)
SimGrid == {-50, 0, 40, 55, 80, 95, 100}

ConfKeywordLists ==
    {NoneVal, Some(<<>>), Some(<<<<"a", "a", "a">>>>),
     Some(<<<<"a", "a", "a">>, <<"x", "y", "z">>>>)}

ConfTexts == {<<"A", "A", "A", "z">>, <<"x", "y">>}

ConfTextLists == {NoneVal} \cup {Some(t) : t \in SeqsUpTo(ConfTexts, MaxTexts)}

PipeIdle ==
    /\ pc = "idle"
    /\ query = NoneQuery
    /\ subject_name = "Biology"
    /\ cleaned_query = <<>>
    /\ keywords = <<>>
    /\ multi_queries = <<>>
    /\ qi = 0
    /\ collection = FALSE
    /\ all_chunk_dicts = <<>>
    /\ chunk_dicts = <<>>
    /\ confidence = NoConfidence
    /\ result = NoResult
    /\ error = NoError
    /\ calls = <<>>
    /\ expand_reply = NoReply
    /\ rerank_reply = NoReply
    /\ primary_reply = NoReply

InitConf ==
    /\ PipeIdle
    /\ cSims \in SeqsUpTo(SimGrid, MaxSims)
    /\ cKeywords \in ConfKeywordLists
    /\ cTexts \in ConfTextLists
    /\ cResult = NoConfidence
    /\ cPc = "input"
    /\ cPrev = NoneVal
    /\ CiteIdle
    /\ DedupIdle
    /\ RerankIdle
    /\ ExpandIdle
    /\ LateIdle

ConfCall ==
    /\ cPc = "input"
    /\ cResult' = ComputeConfidence(cSims, cKeywords, cTexts)
    /\ cPc' = "done"
    /\ UNCHANGED <<cSims, cKeywords, cTexts, cPrev, pipeVars, citeVars,
                   dedupVars, rerankVars, expandVars,
                   lateVars>>

NextConf == ConfCall

SpecConf == InitConf /\ [][NextConf]_vars

(***************************************************************************)
(* compute_confidence called twice without keywords, as the tests of the   *)
(* variance penalty do, so that two scores can be compared.                 *)
(***************************************************************************)
PairSimLists ==
    {<<95, 40, 35>>, <<80, 81, 79>>, <<90, 50, 30>>,
     <<59>>, <<60>>, <<74>>, <<75>>, <<89>>, <<90>>}

InitPair ==
    /\ PipeIdle
    /\ cSims \in PairSimLists
    /\ cKeywords = NoneVal
    /\ cTexts = NoneVal
    /\ cResult = NoConfidence
    /\ cPc = "input"
    /\ cPrev = NoneVal
    /\ CiteIdle
    /\ DedupIdle
    /\ RerankIdle
    /\ ExpandIdle
    /\ LateIdle

ConfAgain ==
    /\ cPc = "done"
    /\ cPrev = NoneVal
    /\ cPrev' = Some([sims |-> cSims, result |-> cResult])
    /\ cSims' \in PairSimLists
    /\ cResult' = NoConfidence
    /\ cPc' = "input"
    /\ UNCHANGED <<cKeywords, cTexts, pipeVars, citeVars, dedupVars,
                   rerankVars, expandVars,
                   lateVars>>

NextPair ==
    \/ ConfCall
    \/ ConfAgain

SpecPair == InitPair /\ [][NextPair]_vars

(***************************************************************************)
(* extract_citations called on its own, for every answer text and chunk    *)
(* list of a bounded set.                                                   *)
(***************************************************************************)
\* chunks: two of the same file and page, a path-prefixed file name, two
\* whose names and locations hold "_", and a file name with a comma
CiteChunks == {
    Chunk("k1", <<"x">>, <<"n">>, <<"1">>, "pdf"),
    Chunk("k2", <<"y">>, <<"d", "/", "n">>, <<"1">>, "pdf"),
    Chunk("k3", <<"z">>, <<"n">>, <<"1">>, "pdf"),
    Chunk("k4", <<"x">>, <<"a", "_", "b">>, <<"c">>, "txt"),
    Chunk("k5", <<"x">>, <<"a">>, <<"b", "_", "c">>, "txt"),
    Chunk("k6", <<"x">>, <<"a", ",", "b">>, <<"1">>, "pdf") }

\* the marker the prompt asks for: [SOURCE: filename, location_ref]
MarkerFor(chunk) == Src(chunk.fileName, chunk.locationRef)

\* markers of the chunks, one with more whitespace inside the brackets, one
\* of a file that was never supplied and one without a file name
CiteMarkers ==
    {MarkerFor(c) : c \in CiteChunks}
    \cup {Src(<<"n", " ">>, <<"1", " ">>), Src(<<"q">>, <<"1">>),
          Src(<<>>, <<"1">>)}

InitCite ==
    /\ PipeIdle
    /\ ConfIdle
    /\ eText \in SeqsUpTo(CiteMarkers, MaxMarkers)
    /\ eChunks \in SeqsUpTo(CiteChunks, MaxCiteChunks)
    /\ eCitations = <<>>
    /\ ePc = "input"
    /\ DedupIdle
    /\ RerankIdle
    /\ ExpandIdle
    /\ LateIdle

CiteCall ==
    /\ ePc = "input"
    /\ eCitations' = ExtractCitations(eText, eChunks)
    /\ ePc' = "done"
    /\ UNCHANGED <<eText, eChunks, pipeVars, confVars, dedupVars, rerankVars,
                   expandVars,
                   lateVars>>

NextCite == CiteCall

SpecCite == InitCite /\ [][NextCite]_vars

(***************************************************************************)
(* _deduplicate_chunks called on its own and then on its own result, for    *)
(* every chunk list of a bounded set and every hash function.               *)
(***************************************************************************)
DedupTexts == {<<"A">>, <<"B">>, <<"C">>}

DedupChunks == {
    [chunkId |-> "1", text |-> <<"A">>],
    [chunkId |-> "2", text |-> <<"A">>],
    [chunkId |-> "3", text |-> <<"B">>],
    [chunkId |-> "4", text |-> <<"C">>] }

HashValues == 1..3

InitDedup ==
    /\ PipeIdle
    /\ ConfIdle
    /\ CiteIdle
    /\ dChunks \in SeqsUpTo(DedupChunks, MaxDedupLen)
    /\ dHash \in [DedupTexts -> HashValues]
    /\ dOnce = <<>>
    /\ dTwice = <<>>
    /\ dPc = "input"
    /\ RerankIdle
    /\ ExpandIdle
    /\ LateIdle

DedupCall ==
    /\ dPc = "input"
    /\ dOnce' = DeduplicateChunks(dChunks, dHash)
    /\ dPc' = "once"
    /\ UNCHANGED <<dChunks, dHash, dTwice, pipeVars, confVars, citeVars,
                   rerankVars, expandVars,
                   lateVars>>

DedupAgain ==
    /\ dPc = "once"
    /\ dTwice' = DeduplicateChunks(dOnce, dHash)
    /\ dPc' = "twice"
    /\ UNCHANGED <<dChunks, dHash, dOnce, pipeVars, confVars, citeVars,
                   rerankVars, expandVars,
                   lateVars>>

NextDedup ==
    \/ DedupCall
    \/ DedupAgain

SpecDedup == InitDedup /\ [][NextDedup]_vars

(***************************************************************************)
(* _rerank_chunks called on its own, for chunk lists of every length up to  *)
(* a bound and every short reply of the auxiliary model.                    *)
(***************************************************************************)
\* a list of k chunks; the chunk at 0-based position i has chunkId i
RerankInput(k) == [i \in 1..k |-> [chunkId |-> i - 1, text |-> <<"t">>]]

\* characters of a reply: indices in range, one out of range, the separator
RerankChars == {"0", "1", "2", "9", ","}

InitRerank ==
    /\ PipeIdle
    /\ ConfIdle
    /\ CiteIdle
    /\ DedupIdle
    /\ \E k \in 0..MaxRerankLen : rChunks = RerankInput(k)
    /\ rReply \in AuxReplies(SeqsUpTo(RerankChars, MaxReplyLen))
    /\ rResult = <<>>
    /\ rPc = "input"
    /\ ExpandIdle
    /\ LateIdle

RerankCall ==
    /\ rPc = "input"
    /\ rResult' = RerankChunks(rChunks, rReply)
    /\ rPc' = "done"
    /\ UNCHANGED <<rChunks, rReply, pipeVars, confVars, citeVars, dedupVars,
                   expandVars,
                   lateVars>>

NextRerank == RerankCall

SpecRerank == InitRerank /\ [][NextRerank]_vars

(***************************************************************************)
(* _generate_multi_queries called on its own, for every reply of up to      *)
(* MaxLines lines.                                                          *)
(***************************************************************************)
ExpandQueries == {<<"q">>}

\* lines of a reply: empty, blank, padded, and one equal to the query
ExpandLines ==
    {<<>>, <<" ">>, <<"a">>, <<" ", "b", " ">>, <<"c">>, <<"d">>, <<"q">>}

\* "\n".join(lines)
RECURSIVE JoinLines(_)
JoinLines(lines) ==
    IF lines = <<>> THEN <<>>
    ELSE IF Len(lines) = 1 THEN Head(lines)
    ELSE Head(lines) \o <<"\n">> \o JoinLines(Tail(lines))

InitExpand ==
    /\ PipeIdle
    /\ ConfIdle
    /\ CiteIdle
    /\ DedupIdle
    /\ RerankIdle
    /\ mQuery \in ExpandQueries
    /\ mReply \in AuxReplies({JoinLines(ls) : ls \in SeqsUpTo(ExpandLines, MaxLines)})
    /\ mResult = <<>>
    /\ mPc = "input"
    /\ LateIdle

ExpandCall ==
    /\ mPc = "input"
    /\ mResult' = GenerateMultiQueries(mQuery, mReply)
    /\ mPc' = "done"
    /\ UNCHANGED <<mQuery, mReply, pipeVars, confVars, citeVars, dedupVars,
                   rerankVars,
                   lateVars>>

NextExpand == ExpandCall

SpecExpand == InitExpand /\ [][NextExpand]_vars

\* ---- one unit running, all others idle ----
EarlyIdle ==
    /\ PipeIdle
    /\ ConfIdle
    /\ CiteIdle
    /\ DedupIdle
    /\ RerankIdle
    /\ ExpandIdle

\* every other unit is idle
LoopAlone ==
    /\ EarlyIdle
    /\ OrderIdle
    /\ HistIdle
    /\ PreIdle
    /\ RetryIdle
    /\ ChunkIdle
    /\ RouteIdle

\* every other unit is idle
OrderAlone ==
    /\ EarlyIdle
    /\ LoopIdle
    /\ HistIdle
    /\ PreIdle
    /\ RetryIdle
    /\ ChunkIdle
    /\ RouteIdle

\* every other unit is idle
HistAlone ==
    /\ EarlyIdle
    /\ LoopIdle
    /\ OrderIdle
    /\ PreIdle
    /\ RetryIdle
    /\ ChunkIdle
    /\ RouteIdle

\* every other unit is idle
PreAlone ==
    /\ EarlyIdle
    /\ LoopIdle
    /\ OrderIdle
    /\ HistIdle
    /\ RetryIdle
    /\ ChunkIdle
    /\ RouteIdle

\* every other unit is idle
RetryAlone ==
    /\ EarlyIdle
    /\ LoopIdle
    /\ OrderIdle
    /\ HistIdle
    /\ PreIdle
    /\ ChunkIdle
    /\ RouteIdle

\* every other unit is idle
ChunkAlone ==
    /\ EarlyIdle
    /\ LoopIdle
    /\ OrderIdle
    /\ HistIdle
    /\ PreIdle
    /\ RetryIdle
    /\ RouteIdle

\* every other unit is idle
RouteAlone ==
    /\ EarlyIdle
    /\ LoopIdle
    /\ OrderIdle
    /\ HistIdle
    /\ PreIdle
    /\ RetryIdle
    /\ ChunkIdle
\* ---- end of the unit predicates ----

(***************************************************************************)
(* Several ask_question requests served by one event loop.  A request      *)
(* makes its external calls in order; a call awaited through               *)
(* run_in_executor leaves the event-loop thread free, a call made directly *)
(* keeps the thread inside it until it returns.                             *)
(***************************************************************************)
Requests == 1..MaxRequests

\* the external calls of one request with one expanded query, in order
CallSeq == <<"expand", "embed", "get_collection", "query", "rerank", "generate">>

\* the calls awaited through loop.run_in_executor
Offloaded(call) == call \in {"expand", "embed", "rerank"}

InitLoop ==
    /\ LoopAlone
    /\ lPos = [r \in Requests |-> 1]
    /\ lMode = [r \in Requests |-> "ready"]
    /\ loopHeld = 0

\* the coroutine of request r runs up to its next external call
IssueCall(r) ==
    /\ lMode[r] = "ready"
    /\ loopHeld = 0
    /\ IF Offloaded(CallSeq[lPos[r]])
       THEN /\ lMode' = [lMode EXCEPT ![r] = "awaiting"]
            /\ UNCHANGED loopHeld
       ELSE /\ lMode' = [lMode EXCEPT ![r] = "blocking"]
            /\ loopHeld' = r
    /\ UNCHANGED <<lPos, loopRest>>

AfterCall(r) == IF lPos[r] = Len(CallSeq) THEN "done" ELSE "ready"

\* the executor finished the call of r and the loop resumes its coroutine
AwaitReturns(r) ==
    /\ lMode[r] = "awaiting"
    /\ loopHeld = 0
    /\ lMode' = [lMode EXCEPT ![r] = AfterCall(r)]
    /\ lPos' = [lPos EXCEPT ![r] = lPos[r] + 1]
    /\ UNCHANGED <<loopHeld, loopRest>>

\* the call made directly by r returns on the event-loop thread
DirectReturns(r) ==
    /\ lMode[r] = "blocking"
    /\ lMode' = [lMode EXCEPT ![r] = AfterCall(r)]
    /\ lPos' = [lPos EXCEPT ![r] = lPos[r] + 1]
    /\ loopHeld' = 0
    /\ UNCHANGED loopRest

NextLoop ==
    \/ \E r \in Requests : IssueCall(r)
    \/ \E r \in Requests : AwaitReturns(r)
    \/ \E r \in Requests : DirectReturns(r)

SpecLoop == InitLoop /\ [][NextLoop]_vars

(***************************************************************************)
(* Lines 447-507 on their own: the results of two expanded queries are      *)
(* aggregated, deduplicated, reranked, truncated and scored, twice for the  *)
(* same results, the second time possibly in the other order and with       *)
(* another reply of the reranker.                                           *)
(***************************************************************************)
OrderResults ==
    {hits \in SeqsUpTo([idx : 1..Len(Corpus), distance : Distances],
                       Min(MaxOrderHits, N_RESULTS)) : IsSearchResult(hits)}

\* the keywords of the query "aaa"
OrderKeywords == ExtractKeywords(CleanQuery(<<"a", "a", "a">>))

\* lines 484-489: deduplicate, then rerank when more than one chunk is left
Reranked(all, reply) ==
    LET unique == DeduplicateChunks(all, CorpusHash)
    IN  IF Len(unique) > 1 THEN RerankChunks(unique, reply) ELSE unique

\* lines 492-507: the chunks kept for the prompt and the tier they are given
Outcome(all, reply) ==
    LET cut == Take(Reranked(all, reply), PROMPT_CHUNKS)
    IN  [chunks |-> cut,
         tier |-> IF cut = <<>> THEN "NOT_FOUND"
                  ELSE ComputeConfidence(Similarities(cut), Some(OrderKeywords),
                                         Some(Texts(cut))).tier]

InitOrder ==
    /\ OrderAlone
    /\ oFirst \in OrderResults
    /\ oSecond \in OrderResults
    /\ oOutA = <<>>
    /\ oOutB = <<>>
    /\ oPc = "input"

\* the results are aggregated first query first
OrderCall ==
    /\ oPc = "input"
    /\ \E reply \in AuxReplies(RerankTexts) :
        oOutA' = Outcome(ChunkDicts(oFirst) \o ChunkDicts(oSecond), reply)
    /\ oPc' = "once"
    /\ UNCHANGED <<oFirst, oSecond, oOutB, orderRest>>

\* the same results are aggregated second query first
OrderSwapped ==
    /\ oPc = "once"
    /\ \E reply \in AuxReplies(RerankTexts) :
        oOutB' = Outcome(ChunkDicts(oSecond) \o ChunkDicts(oFirst), reply)
    /\ oPc' = "twice"
    /\ UNCHANGED <<oFirst, oSecond, oOutA, orderRest>>

NextOrder == OrderCall \/ OrderSwapped

SpecOrder == InitOrder /\ [][NextOrder]_vars

(***************************************************************************)
(* Lines 522-561 on their own: the history block of the prompt is built     *)
(* from the history argument, the primary model answers and the citations   *)
(* of its answer are extracted.                                             *)
(***************************************************************************)
\* line 526: history[-5:]
HISTORY_TURNS == 5

\* the chunks retrieved for the question
HistChunks == << Chunk("k1", <<"x">>, <<"n">>, <<"1">>, "pdf") >>

\* a marker of a file that only an earlier turn of the conversation cited
HistMarker == Src(<<"h">>, <<"1">>)

\* turn.get("role") and turn.get("content") of the turns supplied
HistTurns ==
    [role : {"user", "assistant"}, content : {<<Txt("t")>>, <<HistMarker>>}]

\* answers of the primary model: citing a retrieved chunk, repeating the
\* marker of the history, or both
HistAnswers ==
    { <<MarkerFor(HistChunks[1])>>, <<HistMarker>>,
      <<HistMarker, MarkerFor(HistChunks[1])>> }

\* lines 527-528: one line of the block
HistoryLine(turn) ==
    [role |-> IF turn.role = "user" THEN "User" ELSE "Teacher",
     content |-> turn.content]

\* s[-n:]
LastOf(s, n) == SubSeq(s, Len(s) - Min(n, Len(s)) + 1, Len(s))

\* faulty variant of line 526: the oldest turns are kept
HistoryBlockOldest(history) ==
    LET kept == Take(history, HISTORY_TURNS)
    IN  [i \in 1..Len(kept) |-> HistoryLine(kept[i])]

\* lines 523-530: the turn lines between the header and the blank line
HistoryBlock(history) ==
    LET kept == LastOf(history, HISTORY_TURNS)
    IN  [i \in 1..Len(kept) |-> HistoryLine(kept[i])]

InitHist ==
    /\ HistAlone
    /\ hHistory \in SeqsUpTo(HistTurns, MaxHistory)
    /\ hAnswer = <<>>
    /\ hBlock = <<>>
    /\ hCitations = <<>>
    /\ hPc = "input"

\* lines 522-561
HistCall ==
    /\ hPc = "input"
    /\ hBlock' = HistoryBlock(hHistory)
    /\ \E answer \in HistAnswers :
        /\ hAnswer' = answer
        /\ hCitations' = ExtractCitations(answer, HistChunks)
    /\ hPc' = "done"
    /\ UNCHANGED <<hHistory, histRest>>

NextHist == HistCall

SpecHist == InitHist /\ [][NextHist]_vars

(***************************************************************************)
(* _preprocess_query called on its own, for every string of up to           *)
(* MaxQueryLen characters.                                                  *)
(***************************************************************************)
PreChars == {" ", "\t", "?", "!", "x"}

InitPre ==
    /\ PreAlone
    /\ pQuery \in SeqsUpTo(PreChars, MaxQueryLen)
    /\ pClean = <<>>
    /\ pKeywords = <<>>
    /\ pPc = "input"

\* lines 171-172: the query is refused
PreRaises ==
    /\ pPc = "input"
    /\ InvalidQuery(StrQuery(pQuery))
    /\ pPc' = "raised"
    /\ UNCHANGED <<pQuery, pClean, pKeywords, preRest>>

\* lines 175-197
PreCall ==
    /\ pPc = "input"
    /\ ~InvalidQuery(StrQuery(pQuery))
    /\ pClean' = CleanQuery(pQuery)
    /\ pKeywords' = ExtractKeywords(CleanQuery(pQuery))
    /\ pPc' = "done"
    /\ UNCHANGED <<pQuery, preRest>>

NextPre == PreRaises \/ PreCall

SpecPre == InitPre /\ [][NextPre]_vars

(***************************************************************************)
(* Lines 451-455 with embedding_service.embed_query and _embed_with_retry:  *)
(* each expanded query is embedded in turn; every call of the embedding     *)
(* API returns or raises.                                                   *)
(***************************************************************************)
\* embedding_service.py lines 15-16
MAX_RETRIES == 3
RETRY_DELAY == 1

ApiCall(ok) == [e |-> "call", ok |-> ok, secs |-> 0]

Slept(secs) == [e |-> "sleep", ok |-> FALSE, secs |-> secs]

\* faulty variant of line 146: the delay does not grow
BackoffWaitFixed(attempt) == RETRY_DELAY

\* line 146: wait_time = RETRY_DELAY * (2 ** attempt)
BackoffWait(attempt) == RETRY_DELAY * (2 ^ attempt)

\* the expanded queries: the cleaned query, which may be empty, and variants
RetryQueries ==
    {<<first>> \o [i \in 1..k |-> <<"v">>] :
        first \in {<<>>, <<"q">>}, k \in 0..(MaxRetryQueries - 1)}

InitRetry ==
    /\ RetryAlone
    /\ tQueries \in RetryQueries
    /\ tQi = 1
    /\ tAttempt = 0
    /\ tLog = [i \in 1..Len(tQueries) |-> <<>>]
    /\ tError = NoError
    /\ tPc = "embed"

\* embed_query lines 107-108: an empty query is refused without a call
EmbedQueryRefuses ==
    /\ tPc = "embed"
    /\ EmbedRefuses(tQueries[tQi])
    /\ tError' = WrapOuter(WrapRetrieval(WrapEmbed(Exc("EmbeddingError", "embed"))))
    /\ tPc' = "raised"
    /\ UNCHANGED <<tQueries, tQi, tAttempt, tLog, retryRest>>

\* embed_query lines 112, 129-131: the first attempt is started
EmbedQueryStarts ==
    /\ tPc = "embed"
    /\ ~EmbedRefuses(tQueries[tQi])
    /\ tAttempt' = 0
    /\ tPc' = "call"
    /\ UNCHANGED <<tQueries, tQi, tLog, tError, retryRest>>

\* lines 131-140: the call returns the embedding, which is returned at once
ApiReturns ==
    /\ tPc = "call"
    /\ tLog' = [tLog EXCEPT ![tQi] = Append(@, ApiCall(TRUE))]
    /\ IF tQi < Len(tQueries)
       THEN /\ tQi' = tQi + 1
            /\ tPc' = "embed"
       ELSE /\ tPc' = "returned"
            /\ UNCHANGED tQi
    /\ UNCHANGED <<tQueries, tAttempt, tError, retryRest>>

\* lines 142-147: the call raises and another attempt is left
ApiRaisesRetry ==
    /\ tPc = "call"
    /\ tAttempt < MAX_RETRIES - 1
    /\ tLog' = [tLog EXCEPT ![tQi] = Append(@, ApiCall(FALSE))]
    /\ tPc' = "sleep"
    /\ UNCHANGED <<tQueries, tQi, tAttempt, tError, retryRest>>

\* lines 142-150 and rag_service.py 454-455: the last attempt raises
ApiRaisesLast ==
    /\ tPc = "call"
    /\ ~(tAttempt < MAX_RETRIES - 1)
    /\ tLog' = [tLog EXCEPT ![tQi] = Append(@, ApiCall(FALSE))]
    /\ tError' = WrapOuter(WrapRetrieval(WrapEmbed(Exc("EmbeddingError", "embed"))))
    /\ tPc' = "raised"
    /\ UNCHANGED <<tQueries, tQi, tAttempt, retryRest>>

\* line 147: asyncio.sleep(wait_time) is over, the loop takes the next attempt
SleepEnds ==
    /\ tPc = "sleep"
    /\ tLog' = [tLog EXCEPT ![tQi] = Append(@, Slept(BackoffWait(tAttempt)))]
    /\ tAttempt' = tAttempt + 1
    /\ tPc' = "call"
    /\ UNCHANGED <<tQueries, tQi, tError, retryRest>>

NextRetry ==
    \/ EmbedQueryRefuses
    \/ EmbedQueryStarts
    \/ ApiReturns
    \/ ApiRaisesRetry
    \/ ApiRaisesLast
    \/ SleepEnds

SpecRetry == InitRetry /\ [][NextRetry]_vars

\* the event loop resumes a coroutine whose call or sleep is over
SpecRetryLive == SpecRetry /\ WF_vars(NextRetry)

(***************************************************************************)
(* chunking_service.chunk_text called on its own with an accepted text and  *)
(* metadata, for every list of up to MaxPieces raw pieces of the splitter.  *)
(* A piece is given by the length of its stripped text.                     *)
(***************************************************************************)
\* chunking_service.py line 13
MIN_CHUNK_SIZE == 50

\* lengths of stripped pieces, around MIN_CHUNK_SIZE
PieceLengths == {0, 49, 50, 120}

\* lines 72-92: the chunks of the pieces from raw index i on (0-based)
RECURSIVE ChunksFrom(_, _)
ChunksFrom(pieces, i) ==
    IF pieces = <<>> THEN <<>>
    ELSE (IF Head(pieces) < MIN_CHUNK_SIZE THEN <<>>
          ELSE <<[chunkIndex |-> i, stripped |-> Head(pieces)]>>)
         \o ChunksFrom(Tail(pieces), i + 1)

InitChunk ==
    /\ ChunkAlone
    /\ kPieces \in SeqsUpTo(PieceLengths, MaxPieces)
    /\ kResult = <<>>
    /\ kPc = "input"

\* lines 66-67: the splitter returns no piece
ChunkRaises ==
    /\ kPc = "input"
    /\ kPieces = <<>>
    /\ kPc' = "raised"
    /\ UNCHANGED <<kPieces, kResult, chunkRest>>

\* lines 71-94
ChunkCall ==
    /\ kPc = "input"
    /\ kPieces # <<>>
    /\ kResult' = ChunksFrom(kPieces, 0)
    /\ kPc' = "done"
    /\ UNCHANGED <<kPieces, chunkRest>>

NextChunk == ChunkRaises \/ ChunkCall

SpecChunk == InitChunk /\ [][NextChunk]_vars

(***************************************************************************)
(* routes/qa_routes.ask: one request.  What the collaborators do is drawn   *)
(* with the request: the turns stored for the session, whether the pipeline *)
(* returns a result or raises RAGError for the query, and which database    *)
(* step fails, if any.                                                      *)
(***************************************************************************)
\* conversation_service.py line 9
MAX_CONTEXT_TURNS == 4

\* rag_service.py lines 401-407: the parameters of ask_question
AskQuestionParams == {"query", "subject_id", "subject_name", "user_id", "history"}

\* qa_routes.py lines 38-44: the keyword arguments the route passes
RouteKeywords ==
    {"query", "subject_id", "subject_name", "user_id", "conversation_history"}

\* a call binds when every keyword names a parameter; else TypeError
Binds(kwargs, params) == kwargs \subseteq params

\* the "query" of a stored turn: empty or a question
StoredQueries == {<<>>, <<"q">>}

RouteRequests == [subject : BOOLEAN, session : BOOLEAN, followUp : BOOLEAN]

RouteEnvs ==
    [stored : SeqsUpTo(StoredQueries, MaxStoredTurns),
     pipeline : {"result", "RAGError"},
     fails : {"none", "turns", "log", "save"}]

RouteOut(status, detail, logs, saved, asked) ==
    [status |-> status, detail |-> detail, logs |-> logs, saved |-> saved,
     asked |-> asked]

\* conversation_service.py lines 41-56
ResolveQueryWithContext(followUp, turns) ==
    LET last2 == LastOf(turns, 2)
        previous_questions == SelectSeq(last2, LAMBDA q : q # <<>>)
    IN  IF turns = <<>> \/ ~followUp \/ previous_questions = <<>>
        THEN [hint |-> <<>>, context_used |-> FALSE]
        ELSE [hint |-> previous_questions, context_used |-> TRUE]

InitRoute ==
    /\ RouteAlone
    /\ uReq \in RouteRequests
    /\ uEnv \in RouteEnvs
    /\ uTurns = <<>>
    /\ uResolved = <<>>
    /\ uOut = RouteOut(0, "none", 0, 0, FALSE)
    /\ uPc = "start"

\* lines 20-26: the subject is looked up
RouteFindSubject ==
    /\ uPc = "start"
    /\ IF uReq.subject
       THEN /\ uPc' = "turns"
            /\ UNCHANGED uOut
       ELSE /\ uPc' = "done"
            /\ uOut' = RouteOut(404, "Subject not found", 0, 0, FALSE)
    /\ UNCHANGED <<uReq, uEnv, uTurns, uResolved, routeRest>>

\* lines 29-34: the recent turns are read and the query is resolved
RouteRecentTurns ==
    /\ uPc = "turns"
    /\ IF uEnv.fails = "turns"
       THEN /\ uPc' = "done"
            /\ uOut' = RouteOut(500, "database", 0, 0, FALSE)
            /\ UNCHANGED <<uTurns, uResolved>>
       ELSE /\ uTurns' = LastOf(uEnv.stored, MAX_CONTEXT_TURNS)
            /\ uResolved' = ResolveQueryWithContext(uReq.followUp,
                                LastOf(uEnv.stored, MAX_CONTEXT_TURNS))
            /\ uPc' = "ask"
            /\ UNCHANGED uOut
    /\ UNCHANGED <<uReq, uEnv, routeRest>>

\* lines 37-80: ask_question is called, the entry and the turn are written
\* and the response is returned; any exception becomes a 500
RouteAsk ==
    /\ uPc = "ask"
    /\ uPc' = "done"
    /\ uOut' =
        IF ~Binds(RouteKeywords, AskQuestionParams)
        THEN RouteOut(500, "TypeError", 0, 0, FALSE)
        ELSE IF uEnv.pipeline = "RAGError"
        THEN RouteOut(500, "RAGError", 0, 0, TRUE)
        ELSE IF uEnv.fails = "log"
        THEN RouteOut(500, "database", 0, 0, TRUE)
        ELSE IF uEnv.fails = "save"
        THEN RouteOut(500, "database", 1, 0, TRUE)
        ELSE RouteOut(200, "none", 1, 1, TRUE)
    /\ UNCHANGED <<uReq, uEnv, uTurns, uResolved, routeRest>>

NextRoute ==
    \/ RouteFindSubject
    \/ RouteRecentTurns
    \/ RouteAsk

SpecRoute == InitRoute /\ [][NextRoute]_vars

(***************************************************************************)
(* Properties of ask_question (checked under Spec).                         *)
(***************************************************************************)
Called(name) == \E i \in 1..Len(calls) : calls[i].name = name

Failed(name) == \E i \in 1..Len(calls) : calls[i].name = name /\ ~calls[i].ok

\* the fixed refusal template interpolated with the subject name of the request
RefusalText == <<Txt("Not found in your notes for "), Txt(subject_name)>>

IsRefusal ==
    /\ result.answer = RefusalText
    /\ result.confidenceTier = "NOT_FOUND"
    /\ result.citations = <<>>

\* the citation is copied from a chunk of the list the prompt was built from
Validated(citation) ==
    \E i \in 1..Len(chunk_dicts) :
        /\ citation.chunkId = chunk_dicts[i].chunkId
        /\ citation.fileName = chunk_dicts[i].fileName
        /\ citation.locationRef = chunk_dicts[i].locationRef

\* the generated answer, stripped, holds no marker that resolves to a chunk
NoMarkerResolves ==
    \A k \in 1..Len(primary_reply.text) :
        primary_reply.text[k].t = "src" =>
            \A i \in 1..Len(chunk_dicts) :
                ~(/\ chunk_dicts[i].locationRef = Strip(primary_reply.text[k].loc)
                  /\ EndsWith(chunk_dicts[i].fileName,
                              Strip(primary_reply.text[k].name)))

\* C1: a returned result of tier HIGH or MEDIUM carries at least one
\* citation and each citation is backed by a chunk of the prompt; a result
\* with no citation, and every result for a generated answer in which no
\* marker resolves to a chunk, is the refusal response.
C1_GroundingBackstop ==
    pc = "returned" =>
        /\ result.confidenceTier \in {"HIGH", "MEDIUM"} =>
              /\ Len(result.citations) >= 1
              /\ \A i \in 1..Len(result.citations) : Validated(result.citations[i])
        /\ result.citations = <<>> => IsRefusal
        /\ (primary_reply.ok /\ NoMarkerResolves) => IsRefusal

\* the backstop acted: HIGH confidence, an answer of plain text, refused
C1_Witness ==
    /\ pc = "returned"
    /\ confidence.tier = "HIGH"
    /\ primary_reply.ok
    /\ primary_reply.text = <<Txt("Plants make sugar.")>>
    /\ IsRefusal

IsBlank(q) == q.kind = "str" /\ \A i \in 1..Len(q.val) : q.val[i] \in WS

\* C4: for an empty or whitespace-only query no external call is ever made
\* and the request ends by raising the validation error.
C4_BlankQueryRejected ==
    IsBlank(query) =>
        /\ calls = <<>>
        /\ pc \in {"start", "raised"}
        /\ pc = "raised" => error = Exc("RAGError", "validation")

\* a query of three whitespace characters was rejected
C4_Witness ==
    /\ IsBlank(query)
    /\ Len(query.val) = 3
    /\ pc = "raised"
    /\ calls = <<>>

InfraCalls == {"embed", "embed_refused", "get_collection", "search", "primary"}

InfraFailed ==
    \E i \in 1..Len(calls) : calls[i].name \in InfraCalls /\ ~calls[i].ok

\* C5: as soon as the embedding, the vector search or the primary generation
\* has failed, for the first or a later query, the request has raised
\* RAGError and no result is returned.
C5_InfrastructureFailureFatal ==
    InfraFailed =>
        /\ pc = "raised"
        /\ error.kind = "RAGError"
        /\ error.stage \in {"embed", "vector", "generation"}
        /\ result = NoResult

\* the embedding of the second query failed after the first returned chunks
C5_Witness ==
    /\ pc = "raised"
    /\ qi = 2
    /\ all_chunk_dicts # <<>>
    /\ calls[Len(calls)] = Call("embed", FALSE)

\* C6: a failed auxiliary call is never the reason the request raises; after
\* a failed expansion the only query is the cleaned query, after a failed
\* rerank the chunks are the deduplicated chunks in their retrieval order.
C6_AuxiliaryFailureDegrades ==
    /\ Failed("aux_expand") =>
          /\ multi_queries = <<cleaned_query>>
          /\ calls[Len(calls)].name = "aux_expand" => pc = "embed"
    /\ Failed("aux_rerank") =>
          /\ chunk_dicts = Take(DeduplicateChunks(all_chunk_dicts, CorpusHash), PROMPT_CHUNKS)
          /\ calls[Len(calls)].name = "aux_rerank" =>
                (pc \in {"generate", "returned"}
                    \/ (pc = "raised" /\ error.stage = "pipeline"))
    /\ pc = "raised" => error.stage \notin {"expand", "rerank"}

\* the rerank call failed and the request still returned a cited answer
C6_Witness ==
    /\ Failed("aux_rerank")
    /\ Len(chunk_dicts) >= 3
    /\ pc = "returned"
    /\ result.confidenceTier \in {"MEDIUM", "HIGH"}

\* C7: whatever makes ask_question raise, the exception is a RAGError.
C7_SingleErrorKind ==
    pc = "raised" => error.kind = "RAGError"

\* an unexpected KeyError of the prompt construction was wrapped
C7_Witness ==
    /\ pc = "raised"
    /\ error = Exc("RAGError", "pipeline")
    /\ \E i \in 1..Len(chunk_dicts) : chunk_dicts[i].sourceFormat = Missing

RetrievalDone ==
    /\ pc \in {"generate", "returned", "raised"}
    /\ multi_queries # <<>>
    /\ qi = Len(multi_queries) + 1

\* C8: when every search of the request succeeded and returned nothing, or
\* only chunks of similarity 0, the request returns NOT_FOUND with the
\* refusal template for the subject and no citation.
C8_NothingRetrievedNotFound ==
    (RetrievalDone /\ \A i \in 1..Len(all_chunk_dicts) :
                            all_chunk_dicts[i].similarity = 0) =>
        /\ pc = "returned"
        /\ result.confidenceTier = "NOT_FOUND"
        /\ result.answer = RefusalText
        /\ result.citations = <<>>

\* chunks of similarity 0 that hold the query keyword were retrieved
C8_Witness ==
    /\ RetrievalDone
    /\ Len(all_chunk_dicts) >= 2
    /\ \A i \in 1..Len(all_chunk_dicts) : all_chunk_dicts[i].similarity = 0
    /\ confidence.keywordBonus > 0
    /\ pc = "returned"

(***************************************************************************)
(* Properties of compute_confidence (checked under SpecConf).               *)
(***************************************************************************)
AllAtMost(sims, v) == sims # <<>> /\ \A i \in 1..Len(sims) : sims[i] <= v

AllWithin(sims, lo, hi) ==
    sims # <<>> /\ \A i \in 1..Len(sims) : lo <= sims[i] /\ sims[i] <= hi

C10_HighSimilaritiesHigh ==
    (cPc = "done" /\ AllWithin(cSims, 95, 100)) => cResult.tier = "HIGH"

\* similarities 0.95 and 1.00 (variance above 0) scored HIGH without bonus
C10_Witness ==
    /\ cPc = "done"
    /\ cSims = <<95, 100>>
    /\ ~Truthy(cKeywords)
    /\ cResult.tier = "HIGH"
    /\ cResult.score < 10000

(***************************************************************************)
(* Two scores of compute_confidence compared (checked under SpecPair).      *)
(***************************************************************************)
ScoredPair(first, second) ==
    /\ cPc = "done"
    /\ cPrev # NoneVal
    /\ cPrev.val.sims = first
    /\ cSims = second

TierRank(tier) ==
    CASE tier = "NOT_FOUND" -> 0
      [] tier = "LOW" -> 1
      [] tier = "MEDIUM" -> 2
      [] tier = "HIGH" -> 3

\* C12: the clamped score s = wNum / wDen lies within [0, 1]; s < 0.60 gives
\* NOT_FOUND, 0.60 <= s < 0.75 LOW, 0.75 <= s < 0.90 MEDIUM, s >= 0.90 HIGH;
\* and against every score t of the grid 0.00 .. 1.00 the tier is ordered as
\* the scores are.
C12_TierByThresholds ==
    (cPc = "done" /\ cSims # <<>>) =>
        LET num == cResult.wNum
            den == cResult.wDen
        IN  /\ 0 <= num /\ num <= den
            /\ 0 <= cResult.score /\ cResult.score <= 10000
            /\ cResult.tier = "NOT_FOUND" <=> 5 * num < 3 * den
            /\ cResult.tier = "LOW" <=> (5 * num >= 3 * den /\ 4 * num < 3 * den)
            /\ cResult.tier = "MEDIUM" <=>
                    (4 * num >= 3 * den /\ 10 * num < 9 * den)
            /\ cResult.tier = "HIGH" <=> 10 * num >= 9 * den
            /\ \A t \in 0..100 :
                    /\ t * den <= 100 * num =>
                            TierRank(TierOf(t, 100)) <= TierRank(cResult.tier)
                    /\ t * den >= 100 * num =>
                            TierRank(TierOf(t, 100)) >= TierRank(cResult.tier)

\* a score of exactly 0.60 mapped to LOW
C12_Witness ==
    /\ cPc = "done"
    /\ cSims # <<>>
    /\ 5 * cResult.wNum = 3 * cResult.wDen
    /\ cResult.tier = "LOW"

(***************************************************************************)
(* Properties of extract_citations (checked under SpecCite).                *)
(***************************************************************************)
\* the trimmed (name, location) pairs of the markers of the text, in order
TrimmedPairs ==
    LET ms == MarkersOf(eText)
    IN  [j \in 1..Len(ms) |->
            [name |-> Strip(ms[j].name), loc |-> Strip(ms[j].loc)]]

IsSuffix(suf, s) == \E k \in 0..Len(s) : SubSeq(s, k + 1, Len(s)) = suf

\* the chunk backs the pair: same location, file name equal or ending with
\* the name
Backs(chunk, pair) ==
    /\ chunk.locationRef = pair.loc
    /\ IsSuffix(pair.name, chunk.fileName)

Resolves(pair) == \E i \in 1..Len(eChunks) : Backs(eChunks[i], pair)

\* position of the first chunk that backs the pair
FirstBacking(pair) ==
    CHOOSE i \in 1..Len(eChunks) :
        /\ Backs(eChunks[i], pair)
        /\ \A j \in 1..(i - 1) : ~Backs(eChunks[j], pair)

CopyOf(chunk) ==
    [fileName |-> chunk.fileName, locationRef |-> chunk.locationRef,
     chunkId |-> chunk.chunkId, sourceFormat |-> chunk.sourceFormat]

\* C13: every citation returned is the copy of the first chunk of the list
\* that backs some marker of the text (same location, file name equal to the
\* captured name or ending with it); markers that no chunk backs contribute
\* no citation, and the call returns a list.
C13_CitationsBacked ==
    ePc = "done" =>
        /\ \A k \in 1..Len(eCitations) :
                \E j \in 1..Len(TrimmedPairs) :
                    /\ Resolves(TrimmedPairs[j])
                    /\ eCitations[k] = CopyOf(eChunks[FirstBacking(TrimmedPairs[j])])
        /\ Len(eCitations) <=
                Cardinality({j \in 1..Len(TrimmedPairs) : Resolves(TrimmedPairs[j])})

\* a marker of an unknown file was dropped and the marker "n, 1" resolved to
\* the first chunk that backs it, the path-prefixed "d/n"
C13_Witness ==
    /\ ePc = "done"
    /\ eText = <<Src(<<"q">>, <<"1">>), Src(<<"n">>, <<"1">>)>>
    /\ Len(eChunks) = 2
    /\ eChunks[1].chunkId = "k2"
    /\ eChunks[2].chunkId = "k1"
    /\ Len(eCitations) = 1
    /\ eCitations[1].chunkId = "k2"

\* the text is the one marker written for the chunk at position i
OnlyMarkerOf(i) == eText = <<MarkerFor(eChunks[i])>>

\* C14 as stated: the marker written for a chunk of the list yields exactly
\* one citation, with that chunk's chunkId.
C14_Original ==
    ePc = "done" =>
        \A i \in 1..Len(eChunks) :
            OnlyMarkerOf(i) =>
                /\ Len(eCitations) = 1
                /\ eCitations[1].chunkId = eChunks[i].chunkId

Has(s, c) == \E i \in 1..Len(s) : s[i] = c

\* the marker written for the chunk is read back with the chunk's own fields
MarkerSafe(chunk) ==
    /\ ~Has(chunk.fileName, ",") /\ ~Has(chunk.fileName, "\n")
    /\ Strip(chunk.fileName) = chunk.fileName
    /\ ~Has(chunk.locationRef, "]") /\ ~Has(chunk.locationRef, "\n")
    /\ Strip(chunk.locationRef) = chunk.locationRef

\* C14 as amended: for a chunk whose file name holds no comma or line break
\* and whose location holds no "]" or line break (neither with whitespace at
\* its ends), the marker written for it yields exactly one citation, with the
\* chunkId of the first chunk of the list that has the same location and a
\* file name equal to or ending with the chunk's: the chunk's own chunkId
\* when no such chunk precedes it.
C14_MarkerOfChunk ==
    ePc = "done" =>
        \A i \in 1..Len(eChunks) :
            (OnlyMarkerOf(i) /\ MarkerSafe(eChunks[i])) =>
                LET pair == [name |-> eChunks[i].fileName,
                             loc |-> eChunks[i].locationRef]
                IN  /\ Len(eCitations) = 1
                    /\ eCitations[1].chunkId = eChunks[FirstBacking(pair)].chunkId
                    /\ (\A j \in 1..(i - 1) : ~Backs(eChunks[j], pair)) =>
                            eCitations[1].chunkId = eChunks[i].chunkId

\* the marker of the second of two chunks of the same file and page yielded
\* one citation, with the first chunk's chunkId
C14_Witness ==
    /\ ePc = "done"
    /\ Len(eChunks) = 2
    /\ eChunks[1].chunkId = "k1"
    /\ eChunks[2].chunkId = "k3"
    /\ OnlyMarkerOf(2)
    /\ Len(eCitations) = 1
    /\ eCitations[1].chunkId = "k1"

\* C15: when the markers of the text are two or more and all have the same
\* trimmed name and location, and a chunk backs them, exactly one citation is
\* returned: the one returned for the text with the first marker alone.
C15_DuplicateMarkers ==
    (/\ ePc = "done"
     /\ Len(TrimmedPairs) >= 2
     /\ \A j \in 1..Len(TrimmedPairs) : TrimmedPairs[j] = TrimmedPairs[1]
     /\ Resolves(TrimmedPairs[1])) =>
        /\ eCitations = <<CopyOf(eChunks[FirstBacking(TrimmedPairs[1])])>>
        /\ eCitations = ExtractCitations(<<Head(eText)>>, eChunks)

\* "[SOURCE: n, 1]" and "[SOURCE: n , 1 ]" in one text gave one citation
C15_Witness ==
    /\ ePc = "done"
    /\ eText = <<Src(<<"n">>, <<"1">>), Src(<<"n", " ">>, <<"1", " ">>)>>
    /\ Len(eChunks) >= 1
    /\ eChunks[1].chunkId = "k1"
    /\ Len(eCitations) = 1

\* C16 as stated: markers are duplicates only when both the trimmed name and
\* the trimmed location are equal, so the citations are as many as the
\* different (name, location) pairs that a chunk backs.
C16_Original ==
    ePc = "done" =>
        Len(eCitations) =
            Cardinality({TrimmedPairs[j] : j \in
                {j \in 1..Len(TrimmedPairs) : Resolves(TrimmedPairs[j])}})

(***************************************************************************)
(* Properties of _deduplicate_chunks (checked under SpecDedup).             *)
(***************************************************************************)
\* positions of the list whose text no earlier position has
FirstOfText(chunks) ==
    {i \in 1..Len(chunks) : \A j \in 1..(i - 1) : chunks[j].text # chunks[i].text}

\* positions of the list whose hash no earlier position has
FirstOfHash(chunks, hash) ==
    {i \in 1..Len(chunks) :
        \A j \in 1..(i - 1) : hash[chunks[j].text] # hash[chunks[i].text]}

\* the subsequence of the list at the positions of the set, in order
RECURSIVE Picked(_, _, _)
Picked(chunks, keep, i) ==
    IF i > Len(chunks) THEN <<>>
    ELSE (IF i \in keep THEN <<chunks[i]>> ELSE <<>>) \o Picked(chunks, keep, i + 1)

Deduplicated == dPc \in {"once", "twice"}

HashSeparates(chunks, hash) ==
    \A i, j \in 1..Len(chunks) :
        chunks[i].text # chunks[j].text => hash[chunks[i].text] # hash[chunks[j].text]

C18_DedupIdempotent ==
    dPc = "twice" => dTwice = dOnce

\* a list of three chunks that lost a chunk was deduplicated a second time
C18_Witness ==
    /\ dPc = "twice"
    /\ Len(dChunks) = 3
    /\ Len(dOnce) = 2
    /\ dTwice = dOnce

(***************************************************************************)
(* Properties of _rerank_chunks (checked under SpecRerank).                 *)
(***************************************************************************)
\* the numbers of the reply that are positions of the list (0-based)
Mentioned ==
    IF ~rReply.ok THEN {}
    ELSE LET nums == FindAllNumbers(rReply.text, -1)
         IN  {nums[i] : i \in 1..Len(nums)} \cap (0..(Len(rChunks) - 1))

\* position in the reply of the first mention of a number
FirstMention(id) ==
    LET nums == FindAllNumbers(rReply.text, -1)
    IN  CHOOSE i \in 1..Len(nums) :
            /\ nums[i] = id
            /\ \A j \in 1..(i - 1) : nums[j] # id

\* C19: the result holds every input chunk exactly once; a list of at most 2
\* chunks, or the list of a failed call, is returned unchanged; otherwise the
\* chunks whose positions the reply mentions come first, in order of first
\* mention, and all others follow in their original order.
C19_RerankPermutation ==
    rPc = "done" =>
        LET n == Len(rChunks)
            k == Cardinality(Mentioned)
        IN  /\ Len(rResult) = n
            /\ \A i \in 1..n :
                    Cardinality({j \in 1..n : rResult[j] = rChunks[i]}) = 1
            /\ (n <= 2 \/ ~rReply.ok) => rResult = rChunks
            /\ n > 2 =>
                    /\ \A j \in 1..k : rResult[j].chunkId \in Mentioned
                    /\ \A i, j \in 1..k :
                            i < j => FirstMention(rResult[i].chunkId)
                                        < FirstMention(rResult[j].chunkId)
                    /\ \A i, j \in (k + 1)..n :
                            i < j => rResult[i].chunkId < rResult[j].chunkId

\* the reply "2,9,2" for three chunks: 9 is out of range, 2 is repeated, 0
\* and 1 are not mentioned; the order returned is 2, 0, 1
C19_Witness ==
    /\ rPc = "done"
    /\ Len(rChunks) = 3
    /\ rReply = AuxReply(<<"2", ",", "9", ",", "2">>)
    /\ rResult = <<rChunks[3], rChunks[1], rChunks[2]>>

(***************************************************************************)
(* Properties of _generate_multi_queries (checked under SpecExpand).        *)
(***************************************************************************)
\* the non-empty trimmed lines of the reply, in order
ReplyLines ==
    LET lines == SplitOn(mReply.text, "\n", <<>>)
        kept == {i \in 1..Len(lines) : Strip(lines[i]) # <<>>}
    IN  Picked([i \in 1..Len(lines) |-> Strip(lines[i])], kept, 1)

\* C20: the first element is the query; no string occurs twice; there are at
\* most 4 elements, and every element after the first is one of the first 3
\* non-empty lines of the reply, all of which occur; when the auxiliary call
\* fails the result is exactly [query].
C20_MultiQueries ==
    mPc = "done" =>
        LET first3 == SubSeq(ReplyLines, 1, Min(3, Len(ReplyLines)))
        IN  /\ Len(mResult) >= 1
            /\ mResult[1] = mQuery
            /\ \A i, j \in 1..Len(mResult) : i # j => mResult[i] # mResult[j]
            /\ Len(mResult) <= 4
            /\ ~mReply.ok => mResult = <<mQuery>>
            /\ mReply.ok =>
                    {mResult[i] : i \in 1..Len(mResult)}
                        = {mQuery} \cup {first3[i] : i \in 1..Len(first3)}

\* a reply of four different lines: the fourth is not in the result
C20_Witness ==
    /\ mPc = "done"
    /\ mReply = AuxReply(JoinLines(<<<<"a">>, <<" ", "b", " ">>, <<"c">>, <<"d">>>>))
    /\ mResult = <<mQuery, <<"a">>, <<"b">>, <<"c">>>>

(***************************************************************************)
(* Properties of requests sharing an event loop (checked under SpecLoop).   *)
(***************************************************************************)
WaitingOnCall(r) == lMode[r] \in {"awaiting", "blocking"}

\* the next step of request r can be taken
CanProgress(r) ==
    \/ lMode[r] \in {"ready", "awaiting"} /\ loopHeld = 0
    \/ lMode[r] = "blocking"

\* C21 as stated: while a request waits on an external call, every other
\* request that is not finished can make progress.
C21_Original ==
    \A r, o \in Requests :
        (r # o /\ WaitingOnCall(r) /\ lMode[o] # "done") => CanProgress(o)

(***************************************************************************)
(* Properties of the aggregation stage (checked under SpecOrder).           *)
(***************************************************************************)
\* the chunks of an outcome with their similarities, as a set
ScoredChunks(out) ==
    {[chunkId |-> out.chunks[i].chunkId, similarity |-> out.chunks[i].similarity] :
        i \in 1..Len(out.chunks)}

\* C22 as stated: for the same retrieval results, the chunks that reach
\* scoring and the prompt, their similarities and the confidence tier are
\* the same whatever the order of aggregation and of the reranker.
C22_Original ==
    oPc = "twice" =>
        /\ ScoredChunks(oOutA) = ScoredChunks(oOutB)
        /\ oOutA.tier = oOutB.tier

(***************************************************************************)
(* Properties of the history block (checked under SpecHist).                *)
(***************************************************************************)
\* the lines of the history block
BlockLines == {hBlock[i] : i \in 1..Len(hBlock)}

\* no turn older than the last n has its line in the block, unless one of
\* the last n turns gives the same line
OnlyLastTurns(n) ==
    \A i \in 1..Len(hHistory) :
        (i <= Len(hHistory) - n /\ HistoryLine(hHistory[i]) \in BlockLines)
            => \E j \in (Len(hHistory) - n + 1)..Len(hHistory) :
                  HistoryLine(hHistory[j]) = HistoryLine(hHistory[i])

\* every citation is the citation of a retrieved chunk
CitationsOfChunks ==
    \A i \in 1..Len(hCitations) :
        \E k \in 1..Len(HistChunks) : hCitations[i] = CitationOf(HistChunks[k])

\* C23 as stated: the history block holds at most the last 3 turns, no
\* earlier turn enters the prompt, and citations resolve only against the
\* retrieved chunks.
C23_Original ==
    hPc = "done" =>
        /\ Len(hBlock) <= 3
        /\ OnlyLastTurns(3)
        /\ CitationsOfChunks

\* C23: the history block holds at most the last 5 turns of the history, in
\* order, no earlier turn enters the prompt, and citations resolve only
\* against the retrieved chunks, whatever the history holds.
C23_HistoryBlock ==
    hPc = "done" =>
        /\ Len(hBlock) <= 5
        /\ Len(hBlock) <= Len(hHistory)
        /\ \A i \in 1..Len(hBlock) :
              hBlock[i] = HistoryLine(hHistory[Len(hHistory) - Len(hBlock) + i])
        /\ OnlyLastTurns(5)
        /\ CitationsOfChunks

\* a history of more than 5 turns whose oldest turn is unlike the later ones
\* and cites a file, and an answer repeating that marker beside a real one
C23_Witness ==
    /\ hPc = "done"
    /\ Len(hHistory) > 5
    /\ hHistory[1].content = <<HistMarker>>
    /\ \A j \in 2..Len(hHistory) : hHistory[j] # hHistory[1]
    /\ hAnswer = <<HistMarker, MarkerFor(HistChunks[1])>>
    /\ Len(hCitations) = 1

(***************************************************************************)
(* Properties of _preprocess_query (checked under SpecPre).                 *)
(***************************************************************************)
NoWhitespaceRun(s) == \A i \in 1..(Len(s) - 1) : ~(s[i] \in WS /\ s[i + 1] \in WS)

NoOuterWhitespace(s) == s = <<>> \/ (s[1] \notin WS /\ s[Len(s)] \notin WS)

StartsWithPunct(s) == s # <<>> /\ s[1] \in LeadPunct

\* the query, after its leading whitespace, is a run of '?'/'!', then
\* whitespace, then '?' or '!' again
SecondPunctRun(q) ==
    \E i, j \in 1..Len(q) :
        /\ i < j
        /\ \A k \in 1..(i - 1) : q[k] \in WS \cup LeadPunct
        /\ \A k \in 1..(i - 1) : q[k] \in LeadPunct => \A n \in k..(i - 1) : q[n] \in LeadPunct
        /\ i > 1 /\ q[i - 1] \in LeadPunct
        /\ \A k \in i..(j - 1) : q[k] \in WS
        /\ q[j] \in LeadPunct

ExhaustedLog ==
    <<ApiCall(FALSE), Slept(1), ApiCall(FALSE), Slept(2), ApiCall(FALSE)>>

\* the calls and sleeps of a query that is embedded: failures, each followed
\* by its wait, then one successful call and nothing after it
SuccessLogs ==
    { <<ApiCall(TRUE)>>,
      <<ApiCall(FALSE), Slept(1), ApiCall(TRUE)>>,
      <<ApiCall(FALSE), Slept(1), ApiCall(FALSE), Slept(2), ApiCall(TRUE)>> }

CallsOf(log) == Cardinality({i \in 1..Len(log) : log[i].e = "call"})

RetryFinished == tPc \in {"returned", "raised"}

RetrySafe ==
    /\ \A i \in 1..Len(tLog) :
        /\ CallsOf(tLog[i]) <= 3
        /\ i < tQi => tLog[i] \in SuccessLogs
        /\ i > tQi => tLog[i] = <<>>
    /\ tPc = "returned" => tQi = Len(tQueries) /\ tLog[tQi] \in SuccessLogs
    /\ tPc = "raised" =>
        /\ tLog[tQi] = ExhaustedLog \/ (tLog[tQi] = <<>> /\ tQueries[tQi] = <<>>)
        /\ tError = Exc("RAGError", "embed")
    /\ tLog[tQi] = ExhaustedLog => tPc = "raised"
    /\ tPc \notin {"returned", "raised"} =>
        /\ tError = NoError
        /\ \E k \in 0..4 : tLog[tQi] = SubSeq(ExhaustedLog, 1, k)

\* C25: each embedding makes at most 3 API calls, returns at the first
\* successful call with no call after it, raises exactly when all 3 calls
\* fail, waits 1 s and then 2 s between failed attempts and not after the
\* last, and ask_question raises the terminal failure as its RAGError; the
\* embedding always comes to an end.
C25_EmbedWithRetry == []RetrySafe /\ <>RetryFinished

\* the second query is given up after three failed calls, the first having
\* succeeded at its third call
C25_Witness ==
    /\ tPc = "raised"
    /\ tQi = 2
    /\ Len(tLog[1]) = 5
    /\ tLog[2] = ExhaustedLog

(***************************************************************************)
(* Properties of chunk_text (checked under SpecChunk).                      *)
(***************************************************************************)
\* C26 as stated: the chunkIndex values of the returned chunks are
\* 0, 1, ..., n-1 in order.
C26_Original ==
    kPc = "done" => \A i \in 1..Len(kResult) : kResult[i].chunkIndex = i - 1

(***************************************************************************)
(* Further properties of ask_question (checked under Spec).                 *)
(***************************************************************************)
\* C27 as stated: the tier of every result is the tier the thresholds give
\* to the score of the same result (in 1/10000), so that a result with tier
\* NOT_FOUND has a score below 0.60.
C27_Original ==
    pc = "returned" =>
        /\ result.confidenceTier = TierOf(result.confidenceScore, 10000)
        /\ result.confidenceTier = "NOT_FOUND" => result.confidenceScore < 6000

(***************************************************************************)
(* Markers without a file name (checked under SpecCite).                    *)
(***************************************************************************)
\* the text has markers, and the captured file name of each is empty
OnlyNamelessMarkers ==
    /\ TrimmedPairs # <<>>
    /\ \A j \in 1..Len(TrimmedPairs) : TrimmedPairs[j].name = <<>>

\* C28 as stated: a marker whose captured file name is empty resolves to no
\* citation, so a text whose only markers are such markers yields no
\* citation and the answer is overridden by the refusal.
C28_Original ==
    (ePc = "done" /\ OnlyNamelessMarkers) => eCitations = <<>>

(***************************************************************************)
(* Queries that clean to nothing (checked under Spec).                      *)
(***************************************************************************)
\* C29 as stated: an accepted query has a non-empty cleaned query, so that
\* no external call is made while the cleaned query is empty.
C29_Original ==
    /\ pc \notin {"idle", "start", "raised"} => cleaned_query # <<>>
    /\ calls # <<>> => cleaned_query # <<>>

(***************************************************************************)
(* Properties of the /ask route (checked under SpecRoute).                  *)
(***************************************************************************)
\* C30 as stated: when the subject exists, the pipeline produces a result
\* for the query and no database step fails, ask_question is run, one
\* qa_logs entry and one turn are written and the response is the result
\* (status 200); a 500 is produced only when one of the steps fails.
C30_Original ==
    (uPc = "done" /\ uReq.subject /\ uEnv.pipeline = "result"
        /\ uEnv.fails = "none") =>
        /\ uOut.asked
        /\ uOut.logs = 1
        /\ uOut.saved = 1
        /\ uOut.status = 200

====
